---- MODULE Spec2Model ----
(***************************************************************************)
(* Nitro/filecache: the FileCache of src/filecache.go, a wrapper around    *)
(* hashicorp/golang-lru with a single-flight download coordinator.         *)
(*                                                                         *)
(* Every goroutine calling into the cache is a process p.  A step of a     *)
(* process is one access to shared state: one call into the LRU cache      *)
(* (which serialises its callers with its own lock and runs the eviction   *)
(* callback inside the call), one critical section of WaitLock, one file   *)
(* system call, or one receive on a channel.                               *)
(***************************************************************************)
EXTENDS Integers, Sequences, FiniteSets, TLC

\* ------------------------------------------------------------------ bounds
NProcs == 2      \* goroutines calling into the cache concurrently
NKeys == 2       \* distinct unique names they ask for
ConcSize == 1    \* the size given to New() for the concurrent runs
MaxCalls == 2    \* calls started in one concurrent behaviour
NCallers == 3    \* goroutines asking for one and the same key
SameKeyCalls == 4 \* calls started in one same-key behaviour
SeqKeys == 3     \* distinct unique names asked for one call at a time
SeqSize == 2     \* the largest size given to New() for the sequential runs
SeqCalls == 3    \* calls made one after the other
MaxTime == 3     \* the points in time a caller of FetchNewerThan may ask for
NAsync == 2      \* goroutines started by PurgeAsync in one behaviour
AsyncCalls == 3  \* calls started in one behaviour with PurgeAsync
ReleaseCalls == 3 \* calls started in one behaviour with waiters to release
StuckCalls == 4   \* calls started in one behaviour with a download that never ends
LiveCalls == 2    \* calls made in a behaviour in which every step is taken in the end
NBuckets == 2     \* S3 buckets
S3Calls == 4      \* calls of the S3 downloader and of GetDownloader in one behaviour
MaxUrlLen == 6    \* characters of a URL given to NewDownloadRecord
MaxValLen == 1    \* characters of the value of an argument
MaxTailLen == 1   \* characters by which the URLs of two records differ

Max(a, b) == IF a > b THEN a ELSE b
Procs == 1..Max(NProcs, NCallers)
Keys == 1..Max(NKeys, SeqKeys)

NoChan == 0       \* no channel (a nil map lookup, a goroutine not waiting)
ClosedChan == -1  \* a channel that has been closed
NoProc == 0       \* WaitLock is free
NoTime == 0       \* no modification time (no file, no stat made)
StatErr == -1     \* times.Stat returned an error
Times == 1..MaxTime

VARIABLES
    size,           \* the size New() gave to lru.NewWithEvict
    Cache,          \* c.Cache: the LRU list, most recently used entry first
    files,          \* the storage paths that exist on disk
    Waiting,        \* c.Waiting: unique name -> channel (NoChan: no entry)
    WaitLock,       \* c.WaitLock: the goroutine holding it, or NoProc
    pc,             \* where each goroutine is in its call ("idle": not in a call)
    op,             \* the exported method the goroutine is in
    key,            \* the unique name of the record it was called with
    waitChan,       \* the channel a goroutine read from c.Waiting (line 251)
    mdErr,          \* the err of the owner's MaybeDownload (line 282)
    ts,             \* the timestamp given to FetchNewerThan
    stat,           \* the modification time times.Stat returned (line 195)
    OnEvict,        \* c.OnEvict is set (TRUE) or nil (FALSE)
    mtime,          \* the modification time of the file of each unique name
    bg,             \* the goroutines started by PurgeAsync
    downloaders,    \* c.downloaders: the managers that have a downloader
    DownloaderCache, \* m.DownloaderCache of one S3RegionManagedDownloader kept in use
    mgrLookups,     \* calls of s3manager.GetBucketRegion by that manager, per bucket
    s3Downloads,    \* calls of the downloader that the option S3Downloader installs
    regionLookups,  \* calls of s3manager.GetBucketRegion in them, per bucket
    lookupErrs,     \* those of them that returned an error
    HashableArgs,   \* the package variable HashableArgs: a set of argument names
    DefaultExtension, \* c.DefaultExtension
    drs,            \* the calls of NewDownloadRecord made, and their results
    names,          \* the results of GetUniqueName and GetFileName for them
    \* history, read by the properties only
    role,           \* how the call is served: "hit", "late", "waiter", "owner"
    depReg,         \* the fetch this call depends on has registered the key
    myDl,           \* DownloadFunc invocations (line 282) of the call
    dlRes,          \* how the call's download ended: "ioFail", "noDownloader", "fetchFail", "fetched"
    since,          \* DownloadFunc was invoked for the call's key since the call
                    \* began or, later, removed the key from the cache
    fetchCount,     \* invocations of the downloader (the Fetcher) per key
    failCount,      \* DownloadFunc invocations per key that returned an error
    fetchedOk,      \* a download of the key succeeded since it was last removed
    evicted,        \* the eviction callbacks the step just taken has run
    ncalls,         \* calls started so far
    last            \* the call that returned last, and what it returned

locals == <<op, key, waitChan, mdErr, ts, stat>>
hist == <<role, depReg, myDl, dlRes, since>>
counts == <<fetchCount, failCount>>
naming == <<HashableArgs, DefaultExtension, drs, names>>
s3 == <<DownloaderCache, mgrLookups, regionLookups, lookupErrs, s3Downloads>>
caching == <<size, OnEvict, downloaders, s3, Cache, files, mtime, Waiting, WaitLock, pc, locals, hist,
             counts, fetchedOk, evicted, ncalls, last, bg>>
vars == <<size, OnEvict, downloaders, naming, s3, Cache, files, mtime, Waiting, WaitLock, pc, locals, hist,
          counts, fetchedOk, evicted, ncalls, last, bg>>

\* ----------------------------------------------------------- naming, disk
\* The time: it starts at 1 and every call started takes it one tick further.
Now == ncalls + 1

\* The storage path of a unique name (GetFileName); distinct names are taken
\* to have distinct paths here.
StoragePath(k) == <<"file", k>>

\* ------------------------------------------------------------ the LRU cache
Entry(k, v) == [key |-> k, value |-> v]

\* lru.Cache.Contains: membership, without touching the recency order.
LruContains(c, k) == \E i \in 1..Len(c) : c[i].key = k

LruWithout(c, k) == SelectSeq(c, LAMBDA e : e.key # k)

\* lru.Cache.Add that never removes the oldest entry
LruAddNoEvict(c, k, v) ==
    IF LruContains(c, k)
    THEN <<Entry(k, v)>> \o LruWithout(c, k)
    ELSE <<Entry(k, v)>> \o c

\* lru.Cache.Add: an existing key is updated and moved to the front; a new
\* key is pushed to the front and the oldest entry removed when the list got
\* longer than the size.
LruAdd(c, k, v) ==
    IF LruContains(c, k)
    THEN <<Entry(k, v)>> \o LruWithout(c, k)
    ELSE LET n == <<Entry(k, v)>> \o c
         IN  IF Len(n) > size THEN SubSeq(n, 1, Len(n) - 1) ELSE n

\* The entries lru.Cache.Add hands to the eviction callback.
LruAddEvicted(c, k) ==
    IF ~LruContains(c, k) /\ Len(c) + 1 > size THEN {c[Len(c)]} ELSE {}

\* lru.Cache.Remove and the entries it hands to the eviction callback.
LruRemove(c, k) == LruWithout(c, k)

\* lru.Cache.Remove that does not call the eviction callback
LruRemoveEvictedNone(c, k) == {}

LruRemoveEvicted(c, k) == {c[i] : i \in {j \in 1..Len(c) : c[j].key = k}}

\* lru.Cache.Purge: every entry goes to the eviction callback.
LruPurgeEvicted(c) == {c[i] : i \in 1..Len(c)}

CacheKeys == {Cache[i].key : i \in 1..Len(Cache)}

\* FileCache.Contains
Contains(k) == LruContains(Cache, k)

\* onEvictDelete for each of the entries ev: the call of c.OnEvict if there is
\* one, then os.Remove of the entry's path,
\* whose error is logged and dropped.  removed is the set of paths whose
\* removal worked; the removal of a path that is not on disk fails.
onEvictDelete(ev, removed) ==
    /\ removed \subseteq {e.value : e \in ev} \cap files
    /\ files' = files \ removed
    /\ mtime' = [k \in Keys |-> IF StoragePath(k) \in removed THEN NoTime ELSE mtime[k]]
    /\ evicted' = {[key |-> e.key, value |-> e.value, observed |-> OnEvict,
                     ok |-> e.value \in removed] : e \in ev}

Evict(ev) == \E removed \in SUBSET {e.value : e \in ev} : onEvictDelete(ev, removed)

\* fetchedOk after the entries ev left the cache
Forget(ev) == [k \in Keys |-> fetchedOk[k] /\ k \notin {e.key : e \in ev}]

\* ------------------------------------------------- strings and hashes
\* A string is a sequence of symbols; a symbol is a character or the
\* hex-encoded MD5 sum of a string, which is taken to be free of collisions
\* and to hold none of the characters '/', '.' and '_'.
Ch(c) == [t |-> c, v |-> <<>>]

Str(cs) == [i \in 1..Len(cs) |-> Ch(cs[i])]

\* The symbol that stands for the prefix "/documents/" at the head of a URL
DocRoot == [t |-> "/documents/", v |-> <<>>]

\* fmt.Sprintf("%x", md5.Sum([]byte(s)))
Md5Hex(s) == <<[t |-> "md5", v |-> s]>>

\* strings.TrimPrefix(url, "/documents/")
TrimPrefix(u) == IF Len(u) > 0 /\ u[1] = DocRoot THEN Tail(u) ELSE u

\* The indices of the character c in s
Indices(s, c) == {i \in 1..Len(s) : s[i] = Ch(c)}

Least(S) == CHOOSE i \in S : \A j \in S : i <= j

Greatest(S) == CHOOSE i \in S : \A j \in S : i >= j

\* strings.Split(s, "/"): the empty string gives one empty part
RECURSIVE Split(_)
Split(s) ==
    IF Indices(s, "/") = {}
    THEN <<s>>
    ELSE <<SubSeq(s, 1, Least(Indices(s, "/")) - 1)>>
            \o Split(SubSeq(s, Least(Indices(s, "/")) + 1, Len(s)))

\* strings.Join(parts, "/")
RECURSIVE Join(_)
Join(parts) ==
    IF Len(parts) = 0 THEN <<>>
    ELSE IF Len(parts) = 1 THEN parts[1]
    ELSE parts[1] \o Str(<<"/">>) \o Join(Tail(parts))

\* strings.ToLower on the argument names used here
ToLower(n) == IF n = "A" THEN "a" ELSE n

\* The orders in which a range over a Go map with the keys S may run
Orders(S) == {o \in [1..Cardinality(S) -> S] : \A i, j \in DOMAIN o : o[i] = o[j] => i = j}

\* ---------------------------------------------------------- DownloadRecord
\* NormalisedArgs that keeps the names outside HashableArgs
NormalisedArgsAll(args) ==
    LET lower == {ToLower(n) : n \in DOMAIN args}
    IN  {na \in [lower -> {args[n] : n \in DOMAIN args}] :
            \A m \in lower : \E n \in DOMAIN args : ToLower(n) = m /\ na[m] = args[n]}

\* lines 423-431: the maps the loop over args may leave in normalisedArgs; of
\* two names with the same lower case the one the range reaches last wins.
NormalisedArgs(args) ==
    LET lower == {ToLower(n) : n \in DOMAIN args} \cap HashableArgs
    IN  {na \in [lower -> {args[n] : n \in DOMAIN args}] :
            \A m \in lower : \E n \in DOMAIN args : ToLower(n) = m /\ na[m] = args[n]}

\* lines 377-384: the string the builder holds after the range over
\* HashableArgs ran in the order o
RECURSIVE Built(_, _)
Built(o, args) ==
    IF Len(o) = 0 THEN <<>>
    ELSE (IF o[1] \in DOMAIN args THEN args[o[1]] ELSE <<>>) \o Built(Tail(o), args)

\* getHashedArgs, lines 371-393: the strings it may return
getHashedArgs(args) ==
    IF DOMAIN args = {}
    THEN {<<>>}
    ELSE {IF Built(o, args) = <<>> THEN <<>> ELSE Md5Hex(Built(o, args)) :
             o \in Orders(HashableArgs)}

\* bucketToDownloadManager, lines 397-404; the bucket "dropbox" is written "d"
bucketToDownloadManager(bucket) ==
    IF bucket = Str(<<"d">>) THEN "DownloadMangerDropbox" ELSE "DownloadMangerS3"

\* What NewDownloadRecord returns with errInvalidURLPath
InvalidURLPath ==
    [err |-> TRUE, Manager |-> "none", Path |-> <<>>, Args |-> [n \in {} |-> <<>>],
     HashedArgs |-> <<>>]

\* NewDownloadRecord, lines 409-439: what it may return
NewDownloadRecord(url, args) ==
    LET pathParts == Split(TrimPrefix(url))
        path == Join(pathParts)
    IN  IF Len(pathParts) < 2 \/ path = <<>> \/ path = Str(<<"/">>)
        THEN {InvalidURLPath}
        ELSE UNION {{[err |-> FALSE,
                      Manager |-> bucketToDownloadManager(pathParts[1]),
                      Path |-> path,
                      Args |-> na,
                      HashedArgs |-> h] : h \in getHashedArgs(na)} :
                    na \in NormalisedArgs(args)}

\* GetUniqueName that looks at HashedArgs where line 443 looks at Args
GetUniqueNameByDigest(dr) ==
    IF dr.HashedArgs # <<>>
    THEN dr.Path \o Str(<<"_">>) \o dr.HashedArgs
    ELSE dr.Path

\* GetUniqueName, lines 442-448
GetUniqueName(dr) ==
    IF DOMAIN dr.Args # {}
    THEN dr.Path \o Str(<<"_">>) \o dr.HashedArgs
    ELSE dr.Path

\* --------------------------------------------------------------- GetFileName
\* strings.LastIndexByte(s, '.'), counted from 0
LastDot(s) == IF Indices(s, ".") = {} THEN -1 ELSE Greatest(Indices(s, ".")) - 1

\* lines 347-353: the slice dr.Path[lastDot:] panics when lastDot is -1
ExtensionPanics(dr) == LastDot(dr.Path) > Len(dr.Path) - 6 /\ LastDot(dr.Path) = -1

Extension(dr) ==
    IF LastDot(dr.Path) > Len(dr.Path) - 6
    THEN SubSeq(dr.Path, LastDot(dr.Path) + 1, Len(dr.Path))
    ELSE DefaultExtension

\* lines 355-363
FileNameOf(dr) ==
    IF DOMAIN dr.Args # {}
    THEN Md5Hex(dr.Path) \o Str(<<"_">>) \o dr.HashedArgs \o Extension(dr)
    ELSE Md5Hex(dr.Path) \o Extension(dr)

\* The leading byte of the FNV-32 sum of a path.  The sum is stood for by a
\* checksum of the characters: all that is used of it is that it is a
\* function of the path with values in 0..255.
CharCode(c) ==
    IF c = Ch("a") THEN 97 ELSE IF c = Ch("d") THEN 100 ELSE IF c = Ch(".") THEN 46
    ELSE IF c = Ch("_") THEN 95 ELSE 47

RECURSIVE FnvByte(_)
FnvByte(s) == IF Len(s) = 0 THEN 129 ELSE (FnvByte(Tail(s)) * 147 + CharCode(s[1])) % 256

\* fmt.Sprintf("%x", hashedDir[:1]): two hex digits
HexDigit(n) == <<"0", "1", "2", "3", "4", "5", "6", "7", "8", "9",
                 "a", "b", "c", "d", "e", "f">>[n + 1]

Hex2(b) == Str(<<HexDigit(b \div 16), HexDigit(b % 16)>>)

\* path.Clean of a rooted path, as the list of its elements: empty elements
\* and "." are dropped, ".." drops the element before it
RECURSIVE Clean(_, _)
Clean(done, parts) ==
    IF Len(parts) = 0 THEN done
    ELSE IF parts[1] = <<>> \/ parts[1] = Str(<<".">>) THEN Clean(done, Tail(parts))
    ELSE IF parts[1] = Str(<<".", ".">>)
         THEN Clean(SubSeq(done, 1, Len(done) - 1), Tail(parts))
    ELSE Clean(Append(done, parts[1]), Tail(parts))

\* The element that stands for c.BaseDir
BaseDir == Str(<<"B">>)

\* GetFileName, lines 336-367: the elements of the path it returns, or a panic
GetFileName(dr) ==
    IF ExtensionPanics(dr)
    THEN [panic |-> TRUE, path |-> <<>>]
    ELSE [panic |-> FALSE,
          path |-> <<BaseDir, Hex2(FnvByte(dr.Path))>> \o Clean(<<>>, Split(FileNameOf(dr)))]

\* ------------------------------------------------------------------- Init
NoCall == [proc |-> NoProc, op |-> "none", key |-> 1, ret |-> "none",
           role |-> "none", depReg |-> FALSE, myDl |-> 0, dlRes |-> "none",
           since |-> FALSE, ts |-> NoTime, stat |-> NoTime]

\* No call of NewDownloadRecord made, no name asked for
NoRecord == [made |-> FALSE, url |-> <<>>, args |-> [n \in {} |-> <<>>],
             dr |-> InvalidURLPath]

NoNames == [unique |-> FALSE, uniqueName |-> <<>>, file |-> FALSE,
            fileName |-> [panic |-> FALSE, path |-> <<>>]]

\* A goroutine slot of PurgeAsync that has not been started
NoGoroutine == [pc |-> "none", doneChan |-> "nil"]

\* The S3 buckets asked for
Buckets == 1..NBuckets

\* The download managers, lines 20-23
Managers == {"DownloadMangerS3", "DownloadMangerDropbox"}

\* The manager of the records with unique name k: the records asked for here
\* are in an S3 bucket when k is odd and in Dropbox when it is even.
Manager(k) == IF k % 2 = 0 THEN "DownloadMangerDropbox" ELSE "DownloadMangerS3"

\* New(): an empty cache, an empty Waiting map, the downloaders of the options
\* S3Downloader and DropboxDownloader; the caller may set OnEvict before the
\* first call.
New(sz) ==
    /\ size = sz
    /\ OnEvict \in BOOLEAN
    /\ downloaders \in {Managers, {"DownloadMangerS3"}}
    /\ DownloaderCache = {}
    /\ mgrLookups = [b \in Buckets |-> 0]
    /\ regionLookups = [b \in Buckets |-> 0]
    /\ lookupErrs = [b \in Buckets |-> 0]
    /\ s3Downloads = [b \in Buckets |-> 0]
    /\ drs = [i \in 1..2 |-> NoRecord]
    /\ names = [i \in 1..2 |-> NoNames]
    /\ Cache = <<>>
    /\ files = {}
    /\ Waiting = [k \in Keys |-> NoChan]
    /\ WaitLock = NoProc
    /\ pc = [p \in Procs |-> "idle"]
    /\ op = [p \in Procs |-> "none"]
    /\ key = [p \in Procs |-> 1]
    /\ waitChan = [p \in Procs |-> NoChan]
    /\ mdErr = [p \in Procs |-> FALSE]
    /\ ts = [p \in Procs |-> NoTime]
    /\ stat = [p \in Procs |-> NoTime]
    /\ mtime = [k \in Keys |-> NoTime]
    /\ bg = [i \in 1..NAsync |-> NoGoroutine]
    /\ since = [p \in Procs |-> FALSE]
    /\ role = [p \in Procs |-> "none"]
    /\ depReg = [p \in Procs |-> FALSE]
    /\ myDl = [p \in Procs |-> 0]
    /\ dlRes = [p \in Procs |-> "none"]
    /\ fetchCount = [k \in Keys |-> 0]
    /\ failCount = [k \in Keys |-> 0]
    /\ evicted = {}
    /\ fetchedOk = [k \in Keys |-> FALSE]
    /\ ncalls = 0
    /\ last = NoCall

\* HashableArgs as line 28 leaves it, no DefaultExtension option
Defaults == HashableArgs = {} /\ DefaultExtension = <<>>

Init == New(ConcSize) /\ Defaults

\* The same with c.OnEvict set and a downloader for every manager
InitObserved == Init /\ OnEvict /\ downloaders = Managers

\* ------------------------------------------------------- calls and returns
\* Goroutine p enters the exported method o with a record of unique name k
\* and goes on at label l.
StartCall(p, o, k, l) ==
    /\ pc[p] = "idle"
    /\ ncalls' = ncalls + 1
    /\ pc' = [pc EXCEPT ![p] = l]
    /\ op' = [op EXCEPT ![p] = o]
    /\ key' = [key EXCEPT ![p] = k]
    /\ UNCHANGED <<waitChan, mdErr, ts, stat, hist, last>>

\* The call o(k) of goroutine p returns r ("ok": true or a nil error; "fail":
\* false or an error), having been served as rl.
Return(p, o, k, r, rl, dr) ==
    /\ pc' = [pc EXCEPT ![p] = "idle"]
    /\ last' = [proc |-> p, op |-> o, key |-> k, ret |-> r, role |-> rl,
                depReg |-> dr, myDl |-> myDl[p], dlRes |-> dlRes[p],
                since |-> since[p], ts |-> ts[p], stat |-> stat[p]]
    /\ ts' = [ts EXCEPT ![p] = NoTime]
    /\ stat' = [stat EXCEPT ![p] = NoTime]
    /\ since' = [since EXCEPT ![p] = FALSE]
    /\ op' = [op EXCEPT ![p] = "none"]
    /\ key' = [key EXCEPT ![p] = 1]
    /\ mdErr' = [mdErr EXCEPT ![p] = FALSE]
    /\ role' = [role EXCEPT ![p] = "none"]
    /\ depReg' = [depReg EXCEPT ![p] = FALSE]
    /\ myDl' = [myDl EXCEPT ![p] = 0]
    /\ dlRes' = [dlRes EXCEPT ![p] = "none"]

\* ------------------------------------------------------------------ Fetch
\* Fetch without the look into the cache of line 213
FetchNoCheck(p, k) ==
    /\ StartCall(p, "Fetch", k, "MD_lock")
    /\ evicted' = {}
    /\ UNCHANGED mtime
    /\ UNCHANGED <<size, OnEvict, downloaders, naming, s3, bg, Cache, files, Waiting, WaitLock, counts, fetchedOk>>

\* lines 212-217: return true on a hit, else go on to MaybeDownload
Fetch(p, k) ==
    /\ pc[p] = "idle"
    /\ IF Contains(k)
       THEN /\ ncalls' = ncalls + 1
            /\ Return(p, "Fetch", k, "ok", "hit", TRUE)
            /\ UNCHANGED waitChan
       ELSE StartCall(p, "Fetch", k, "MD_lock")
    /\ evicted' = {}
    /\ UNCHANGED mtime
    /\ UNCHANGED <<size, OnEvict, downloaders, naming, s3, bg, Cache, files, Waiting, WaitLock, counts, fetchedOk>>

\* Reload that deletes the file of the key and leaves its entry in the cache
ReloadKeepsEntry(p, k) ==
    /\ StartCall(p, "Reload", k, "MD_lock")
    /\ Cache' = Cache
    /\ Evict(LruRemoveEvicted(Cache, k))
    /\ UNCHANGED fetchedOk
    /\ UNCHANGED <<size, OnEvict, downloaders, naming, s3, bg, Waiting, WaitLock, counts>>

\* ----------------------------------------------------------------- Reload
\* lines 228-231: remove the entry, then MaybeDownload
Reload(p, k) ==
    /\ StartCall(p, "Reload", k, "MD_lock")
    /\ Cache' = LruRemove(Cache, k)
    /\ Evict(LruRemoveEvicted(Cache, k))
    /\ fetchedOk' = Forget(LruRemoveEvicted(Cache, k))
    /\ UNCHANGED <<size, OnEvict, downloaders, naming, s3, bg, Waiting, WaitLock, counts>>

\* ---------------------------------------------------------- MaybeDownload
MaybeDownload(p, k) ==
    /\ StartCall(p, "MaybeDownload", k, "MD_lock")
    /\ evicted' = {}
    /\ UNCHANGED mtime
    /\ UNCHANGED <<size, OnEvict, downloaders, naming, s3, bg, Cache, files, Waiting, WaitLock, counts, fetchedOk>>

\* line 250: c.WaitLock.Lock()
MDLock(p) ==
    /\ pc[p] = "MD_lock"
    /\ WaitLock = NoProc
    /\ WaitLock' = p
    /\ pc' = [pc EXCEPT ![p] = "MD_check"]
    /\ evicted' = {}
    /\ UNCHANGED mtime
    /\ UNCHANGED <<size, OnEvict, downloaders, naming, s3, bg, Cache, files, Waiting, locals, hist, counts,
                   fetchedOk, ncalls, last>>

\* MDCheck without the second look at the cache of line 260
MDCheckNoRecheck(p) ==
    /\ pc[p] = "MD_check"
    /\ WaitLock = p
    /\ WaitLock' = NoProc
    /\ IF Waiting[key[p]] # NoChan
       THEN /\ waitChan' = [waitChan EXCEPT ![p] = Waiting[key[p]]]
            /\ pc' = [pc EXCEPT ![p] = "MD_await"]
            /\ role' = [role EXCEPT ![p] = "waiter"]
            /\ UNCHANGED Waiting
       ELSE /\ Waiting' = [Waiting EXCEPT ![key[p]] = p]
            /\ pc' = [pc EXCEPT ![p] = "MD_download"]
            /\ role' = [role EXCEPT ![p] = "owner"]
            /\ UNCHANGED waitChan
    /\ evicted' = {}
    /\ UNCHANGED mtime
    /\ UNCHANGED <<size, OnEvict, downloaders, naming, s3, bg, Cache, files, op, key, mdErr, ts, stat, depReg,
                   myDl, dlRes, since, last, counts, fetchedOk, ncalls>>

\* MDCheck without the look into c.Waiting of line 251
MDCheckNoJoin(p) ==
    /\ pc[p] = "MD_check"
    /\ WaitLock = p
    /\ WaitLock' = NoProc
    /\ IF Contains(key[p])
       THEN /\ Return(p, op[p], key[p], "ok", "late", TRUE)
            /\ UNCHANGED <<Waiting, waitChan>>
       ELSE /\ Waiting' = [Waiting EXCEPT ![key[p]] = p]
            /\ pc' = [pc EXCEPT ![p] = "MD_download"]
            /\ role' = [role EXCEPT ![p] = "owner"]
            /\ UNCHANGED <<waitChan, op, key, mdErr, ts, stat, depReg, myDl, dlRes,
                           since, last>>
    /\ evicted' = {}
    /\ UNCHANGED mtime
    /\ UNCHANGED <<size, OnEvict, downloaders, naming, s3, bg, Cache, files, counts, fetchedOk, ncalls>>

\* MDCheck that keeps WaitLock when it goes on to download
MDCheckKeepLock(p) ==
    /\ pc[p] = "MD_check"
    /\ WaitLock = p
    /\ IF Waiting[key[p]] # NoChan
       THEN /\ waitChan' = [waitChan EXCEPT ![p] = Waiting[key[p]]]
            /\ WaitLock' = NoProc
            /\ pc' = [pc EXCEPT ![p] = "MD_await"]
            /\ role' = [role EXCEPT ![p] = "waiter"]
            /\ UNCHANGED <<Waiting, op, key, mdErr, ts, stat, depReg, myDl, dlRes,
                           since, last>>
       ELSE IF Contains(key[p])
       THEN /\ Return(p, op[p], key[p], "ok", "late", TRUE)
            /\ WaitLock' = NoProc
            /\ UNCHANGED <<Waiting, waitChan>>
       ELSE /\ Waiting' = [Waiting EXCEPT ![key[p]] = p]
            /\ UNCHANGED WaitLock
            /\ pc' = [pc EXCEPT ![p] = "MD_download"]
            /\ role' = [role EXCEPT ![p] = "owner"]
            /\ UNCHANGED <<waitChan, op, key, mdErr, ts, stat, depReg, myDl, dlRes,
                           since, last>>
    /\ evicted' = {}
    /\ UNCHANGED mtime
    /\ UNCHANGED <<size, OnEvict, downloaders, naming, s3, bg, Cache, files, counts, fetchedOk, ncalls>>

\* lines 251-270, under WaitLock: join a download in progress, or find the
\* file arrived, or make the channel and become the owner of the download.
\* The channel an owner makes is named after the owner.
MDCheck(p) ==
    /\ pc[p] = "MD_check"
    /\ WaitLock = p
    /\ WaitLock' = NoProc
    /\ IF Waiting[key[p]] # NoChan
       THEN /\ waitChan' = [waitChan EXCEPT ![p] = Waiting[key[p]]]
            /\ pc' = [pc EXCEPT ![p] = "MD_await"]
            /\ role' = [role EXCEPT ![p] = "waiter"]
            /\ UNCHANGED <<Waiting, op, key, mdErr, ts, stat, depReg, myDl, dlRes,
                           since, last>>
       ELSE IF Contains(key[p])
       THEN /\ Return(p, op[p], key[p], "ok", "late", TRUE)
            /\ UNCHANGED <<Waiting, waitChan>>
       ELSE /\ Waiting' = [Waiting EXCEPT ![key[p]] = p]
            /\ pc' = [pc EXCEPT ![p] = "MD_download"]
            /\ role' = [role EXCEPT ![p] = "owner"]
            /\ UNCHANGED <<waitChan, op, key, mdErr, ts, stat, depReg, myDl, dlRes,
                           since, last>>
    /\ evicted' = {}
    /\ UNCHANGED mtime
    /\ UNCHANGED <<size, OnEvict, downloaders, naming, s3, bg, Cache, files, counts, fetchedOk, ncalls>>

\* MDAwait that does not wait for the channel to be closed
MDAwaitNoWait(p) ==
    /\ pc[p] = "MD_await"
    /\ Return(p, op[p], key[p], "ok", "waiter", depReg[p])
    /\ waitChan' = [waitChan EXCEPT ![p] = NoChan]
    /\ evicted' = {}
    /\ UNCHANGED mtime
    /\ UNCHANGED <<size, OnEvict, downloaders, naming, s3, bg, Cache, files, Waiting, WaitLock, counts, fetchedOk, ncalls>>

\* lines 255-256: <-waitChan, then return nil
MDAwait(p) ==
    /\ pc[p] = "MD_await"
    /\ waitChan[p] = ClosedChan
    /\ Return(p, op[p], key[p], "ok", "waiter", depReg[p])
    /\ waitChan' = [waitChan EXCEPT ![p] = NoChan]
    /\ evicted' = {}
    /\ UNCHANGED mtime
    /\ UNCHANGED <<size, OnEvict, downloaders, naming, s3, bg, Cache, files, Waiting, WaitLock, counts, fetchedOk, ncalls>>

\* MDDownload that invokes a downloader whether or not line 150 finds one
MDDownloadAnyway(p, ioOk) ==
    /\ pc[p] = "MD_download"
    /\ myDl' = [myDl EXCEPT ![p] = @ + 1]
    /\ since' = [q \in Procs |-> since[q] \/ (pc[q] # "idle" /\ key[q] = key[p])]
    /\ IF ioOk
       THEN /\ files' = files \cup {StoragePath(key[p])}
            /\ mtime' = [mtime EXCEPT ![key[p]] = Now]
            /\ fetchCount' = [fetchCount EXCEPT ![key[p]] = @ + 1]
            /\ pc' = [pc EXCEPT ![p] = "MD_fetching"]
            /\ UNCHANGED <<mdErr, dlRes, failCount>>
       ELSE /\ mdErr' = [mdErr EXCEPT ![p] = TRUE]
            /\ dlRes' = [dlRes EXCEPT ![p] = "ioFail"]
            /\ failCount' = [failCount EXCEPT ![key[p]] = @ + 1]
            /\ pc' = [pc EXCEPT ![p] = "MD_defer"]
            /\ UNCHANGED <<files, mtime, fetchCount>>
    /\ evicted' = {}
    /\ UNCHANGED <<size, OnEvict, downloaders, naming, s3, bg, Cache, Waiting, WaitLock, op, key, waitChan, ts,
                   stat, role, depReg, fetchedOk, ncalls, last>>

\* lines 281-282 and download() up to the downloader: MkdirAll and os.Create,
\* either of which may fail (ioOk = FALSE); os.Create leaves the file on disk,
\* modified now; then the downloader of the record's manager is looked up
\* (line 150) and invoked (line 151), and without one download() returns the
\* error of line 154.
MDDownload(p, ioOk) ==
    /\ pc[p] = "MD_download"
    /\ myDl' = [myDl EXCEPT ![p] = @ + 1]
    /\ since' = [q \in Procs |-> since[q] \/ (pc[q] # "idle" /\ key[q] = key[p])]
    /\ IF ioOk /\ Manager(key[p]) \in downloaders
       THEN /\ files' = files \cup {StoragePath(key[p])}
            /\ mtime' = [mtime EXCEPT ![key[p]] = Now]
            /\ fetchCount' = [fetchCount EXCEPT ![key[p]] = @ + 1]
            /\ pc' = [pc EXCEPT ![p] = "MD_fetching"]
            /\ UNCHANGED <<mdErr, dlRes, failCount>>
       ELSE IF ioOk
       THEN /\ files' = files \cup {StoragePath(key[p])}
            /\ mtime' = [mtime EXCEPT ![key[p]] = Now]
            /\ mdErr' = [mdErr EXCEPT ![p] = TRUE]
            /\ dlRes' = [dlRes EXCEPT ![p] = "noDownloader"]
            /\ failCount' = [failCount EXCEPT ![key[p]] = @ + 1]
            /\ pc' = [pc EXCEPT ![p] = "MD_defer"]
            /\ UNCHANGED fetchCount
       ELSE /\ mdErr' = [mdErr EXCEPT ![p] = TRUE]
            /\ dlRes' = [dlRes EXCEPT ![p] = "ioFail"]
            /\ failCount' = [failCount EXCEPT ![key[p]] = @ + 1]
            /\ pc' = [pc EXCEPT ![p] = "MD_defer"]
            /\ UNCHANGED <<files, mtime, fetchCount>>
    /\ evicted' = {}
    /\ UNCHANGED <<size, OnEvict, downloaders, naming, s3, bg, Cache, Waiting, WaitLock, op, key, waitChan, ts,
                   stat, role, depReg, fetchedOk, ncalls, last>>

\* MDFetcherReturn with the error of the downloader dropped
MDFetcherReturnDropErr(p, ok) ==
    /\ pc[p] = "MD_fetching"
    /\ pc' = [pc EXCEPT ![p] = "MD_add"]
    /\ IF ok
       THEN /\ fetchedOk' = [fetchedOk EXCEPT ![key[p]] = TRUE]
            /\ dlRes' = [dlRes EXCEPT ![p] = "fetched"]
            /\ UNCHANGED failCount
       ELSE /\ dlRes' = [dlRes EXCEPT ![p] = "fetchFail"]
            /\ failCount' = [failCount EXCEPT ![key[p]] = @ + 1]
            /\ UNCHANGED fetchedOk
    /\ evicted' = {}
    /\ UNCHANGED mtime
    /\ UNCHANGED <<size, OnEvict, downloaders, naming, s3, bg, Cache, files, Waiting, WaitLock, op, key, waitChan,
                   mdErr, ts, stat, role, depReg, myDl, since, fetchCount, ncalls, last>>

\* MDFetcherReturn that invokes DownloadFunc a second time after an error
MDFetcherReturnRetry(p, ok) ==
    /\ pc[p] = "MD_fetching"
    /\ IF ok
       THEN /\ pc' = [pc EXCEPT ![p] = "MD_add"]
            /\ fetchedOk' = [fetchedOk EXCEPT ![key[p]] = TRUE]
            /\ dlRes' = [dlRes EXCEPT ![p] = "fetched"]
            /\ UNCHANGED <<mdErr, failCount>>
       ELSE /\ mdErr' = [mdErr EXCEPT ![p] = myDl[p] > 1]
            /\ dlRes' = [dlRes EXCEPT ![p] = "fetchFail"]
            /\ failCount' = [failCount EXCEPT ![key[p]] = @ + 1]
            /\ pc' = [pc EXCEPT ![p] = IF myDl[p] > 1 THEN "MD_defer" ELSE "MD_download"]
            /\ UNCHANGED fetchedOk
    /\ evicted' = {}
    /\ UNCHANGED mtime
    /\ UNCHANGED <<size, OnEvict, downloaders, naming, s3, bg, Cache, files, Waiting, WaitLock, op, key, waitChan,
                   ts, stat, role, depReg, myDl, since, fetchCount, ncalls, last>>

\* MDFetcherReturn that leaves out c.Cache.Add after a download without error
MDFetcherReturnSkipAdd(p, ok) ==
    /\ pc[p] = "MD_fetching"
    /\ pc' = [pc EXCEPT ![p] = "MD_defer"]
    /\ IF ok
       THEN /\ fetchedOk' = [fetchedOk EXCEPT ![key[p]] = TRUE]
            /\ dlRes' = [dlRes EXCEPT ![p] = "fetched"]
            /\ UNCHANGED <<mdErr, failCount>>
       ELSE /\ mdErr' = [mdErr EXCEPT ![p] = TRUE]
            /\ dlRes' = [dlRes EXCEPT ![p] = "fetchFail"]
            /\ failCount' = [failCount EXCEPT ![key[p]] = @ + 1]
            /\ UNCHANGED fetchedOk
    /\ evicted' = {}
    /\ UNCHANGED mtime
    /\ UNCHANGED <<size, OnEvict, downloaders, naming, s3, bg, Cache, files, Waiting, WaitLock, op, key, waitChan,
                   ts, stat, role, depReg, myDl, since, fetchCount, ncalls, last>>

\* download() line 151: the downloader returns, with or without an error.
MDFetcherReturn(p, ok) ==
    /\ pc[p] = "MD_fetching"
    /\ IF ok
       THEN /\ pc' = [pc EXCEPT ![p] = "MD_add"]
            /\ fetchedOk' = [fetchedOk EXCEPT ![key[p]] = TRUE]
            /\ dlRes' = [dlRes EXCEPT ![p] = "fetched"]
            /\ UNCHANGED <<mdErr, failCount>>
       ELSE /\ mdErr' = [mdErr EXCEPT ![p] = TRUE]
            /\ dlRes' = [dlRes EXCEPT ![p] = "fetchFail"]
            /\ failCount' = [failCount EXCEPT ![key[p]] = @ + 1]
            /\ pc' = [pc EXCEPT ![p] = "MD_defer"]
            /\ UNCHANGED fetchedOk
    /\ evicted' = {}
    /\ UNCHANGED mtime
    /\ UNCHANGED <<size, OnEvict, downloaders, naming, s3, bg, Cache, files, Waiting, WaitLock, op, key, waitChan,
                   ts, stat, role, depReg, myDl, since, fetchCount, ncalls, last>>

\* MDAdd without the call of c.Cache.Add
MDAddNothing(p) ==
    /\ pc[p] = "MD_add"
    /\ depReg' = [depReg EXCEPT ![p] = TRUE]
    /\ pc' = [pc EXCEPT ![p] = "MD_defer"]
    /\ evicted' = {}
    /\ UNCHANGED mtime
    /\ UNCHANGED <<size, OnEvict, downloaders, naming, s3, bg, Cache, files, fetchedOk, Waiting, WaitLock, locals,
                   role, myDl, dlRes, since, counts, ncalls, last>>

\* MDAdd that takes a failed os.Remove in the eviction callback for an error
\* of the download
MDAddPropagates(p) ==
    /\ pc[p] = "MD_add"
    /\ Cache' = LruAdd(Cache, key[p], StoragePath(key[p]))
    /\ Evict(LruAddEvicted(Cache, key[p]))
    /\ fetchedOk' = Forget(LruAddEvicted(Cache, key[p]))
    /\ depReg' = [depReg EXCEPT ![p] = TRUE]
    /\ mdErr' = [mdErr EXCEPT ![p] = \E e \in evicted' : ~e.ok]
    /\ pc' = [pc EXCEPT ![p] = "MD_defer"]
    /\ UNCHANGED <<size, OnEvict, downloaders, naming, s3, bg, Waiting, WaitLock, op, key, waitChan, ts, stat,
                   role, myDl, dlRes, since, counts, ncalls, last>>

\* line 287: c.Cache.Add(dr.GetUniqueName(), storagePath)
MDAdd(p) ==
    /\ pc[p] = "MD_add"
    /\ Cache' = LruAdd(Cache, key[p], StoragePath(key[p]))
    /\ Evict(LruAddEvicted(Cache, key[p]))
    /\ fetchedOk' = Forget(LruAddEvicted(Cache, key[p]))
    /\ depReg' = [depReg EXCEPT ![p] = TRUE]
    /\ pc' = [pc EXCEPT ![p] = "MD_defer"]
    /\ UNCHANGED <<size, OnEvict, downloaders, naming, s3, bg, Waiting, WaitLock, locals, role, myDl, dlRes,
                   since, counts, ncalls, last>>

\* The goroutines blocked on the channel that c.Waiting holds for k
Blocked(k) == {q \in Procs : Waiting[k] # NoChan /\ waitChan[q] = Waiting[k]}

\* MDDeferClose that deletes the entry of c.Waiting before it closes the
\* channel
MDDeferDeleteThenClose(p) ==
    /\ pc[p] = "MD_defer"
    /\ WaitLock = NoProc
    /\ WaitLock' = p
    /\ Waiting' = [Waiting EXCEPT ![key[p]] = NoChan]
    /\ waitChan' = [q \in Procs |->
                      IF q \in Blocked(key[p]) THEN ClosedChan ELSE waitChan[q]]
    /\ depReg' = [q \in Procs |->
                    IF q \in Blocked(key[p]) THEN depReg[p] ELSE depReg[q]]
    /\ pc' = [pc EXCEPT ![p] = "MD_delete"]
    /\ evicted' = {}
    /\ UNCHANGED mtime
    /\ UNCHANGED <<size, OnEvict, downloaders, naming, s3, bg, Cache, files, op, key, mdErr, ts, stat,
                   role, myDl, dlRes, since, counts, fetchedOk, ncalls, last>>

\* MDDeferClose that closes the channel after a download without error only
MDDeferCloseOnSuccess(p) ==
    /\ pc[p] = "MD_defer"
    /\ WaitLock = NoProc
    /\ WaitLock' = p
    /\ waitChan' = [q \in Procs |->
                      IF q \in Blocked(key[p]) /\ ~mdErr[p] THEN ClosedChan ELSE waitChan[q]]
    /\ depReg' = [q \in Procs |->
                    IF q \in Blocked(key[p]) THEN depReg[p] ELSE depReg[q]]
    /\ pc' = [pc EXCEPT ![p] = "MD_delete"]
    /\ evicted' = {}
    /\ UNCHANGED mtime
    /\ UNCHANGED <<size, OnEvict, downloaders, naming, s3, bg, Cache, files, Waiting, op, key, mdErr, ts, stat,
                   role, myDl, dlRes, since, counts, fetchedOk, ncalls, last>>

\* lines 274-276, the deferred function: take WaitLock and close the channel,
\* which releases every goroutine that read it from c.Waiting.
MDDeferClose(p) ==
    /\ pc[p] = "MD_defer"
    /\ WaitLock = NoProc
    /\ WaitLock' = p
    /\ waitChan' = [q \in Procs |->
                      IF q \in Blocked(key[p]) THEN ClosedChan ELSE waitChan[q]]
    /\ depReg' = [q \in Procs |->
                    IF q \in Blocked(key[p]) THEN depReg[p] ELSE depReg[q]]
    /\ pc' = [pc EXCEPT ![p] = "MD_delete"]
    /\ evicted' = {}
    /\ UNCHANGED mtime
    /\ UNCHANGED <<size, OnEvict, downloaders, naming, s3, bg, Cache, files, Waiting, op, key, mdErr, ts, stat,
                   role, myDl, dlRes, since, counts, fetchedOk, ncalls, last>>

\* MDDeferDelete without the delete of line 277
MDDeferDeleteLeak(p) ==
    /\ pc[p] = "MD_delete"
    /\ WaitLock = p
    /\ WaitLock' = NoProc
    /\ Return(p, op[p], key[p], IF mdErr[p] THEN "fail" ELSE "ok", "owner",
              depReg[p])
    /\ evicted' = {}
    /\ UNCHANGED mtime
    /\ UNCHANGED <<size, OnEvict, downloaders, naming, s3, bg, Cache, files, Waiting, waitChan, counts, fetchedOk, ncalls>>

\* MDDeferDelete without the Unlock of line 278
MDDeferDeleteKeepLock(p) ==
    /\ pc[p] = "MD_delete"
    /\ WaitLock = p
    /\ Waiting' = [Waiting EXCEPT ![key[p]] = NoChan]
    /\ UNCHANGED WaitLock
    /\ Return(p, op[p], key[p], IF mdErr[p] THEN "fail" ELSE "ok", "owner",
              depReg[p])
    /\ evicted' = {}
    /\ UNCHANGED mtime
    /\ UNCHANGED <<size, OnEvict, downloaders, naming, s3, bg, Cache, files, waitChan, counts, fetchedOk, ncalls>>

\* lines 277-278 and the return of line 284 or 289: delete the entry, unlock.
MDDeferDelete(p) ==
    /\ pc[p] = "MD_delete"
    /\ WaitLock = p
    /\ Waiting' = [Waiting EXCEPT ![key[p]] = NoChan]
    /\ WaitLock' = NoProc
    /\ Return(p, op[p], key[p], IF mdErr[p] THEN "fail" ELSE "ok", "owner",
              depReg[p])
    /\ evicted' = {}
    /\ UNCHANGED mtime
    /\ UNCHANGED <<size, OnEvict, downloaders, naming, s3, bg, Cache, files, waitChan, counts, fetchedOk, ncalls>>

\* ------------------------------------------------------------------ Purge
\* Purge that leaves the most recently used entry in the cache
PurgeButOne(p) ==
    /\ pc[p] = "idle"
    /\ ncalls' = ncalls + 1
    /\ Cache' = SubSeq(Cache, 1, IF Len(Cache) > 1 THEN 1 ELSE 0)
    /\ Evict(LruPurgeEvicted(Cache) \ LruPurgeEvicted(Cache'))
    /\ fetchedOk' = Forget(LruPurgeEvicted(Cache) \ LruPurgeEvicted(Cache'))
    /\ Return(p, "Purge", 1, "ok", "none", FALSE)
    /\ UNCHANGED <<size, OnEvict, downloaders, naming, s3, bg, Waiting, WaitLock, waitChan, counts>>

\* lines 312-314
Purge(p) ==
    /\ pc[p] = "idle"
    /\ ncalls' = ncalls + 1
    /\ Cache' = <<>>
    /\ Evict(LruPurgeEvicted(Cache))
    /\ fetchedOk' = Forget(LruPurgeEvicted(Cache))
    /\ Return(p, "Purge", 1, "ok", "none", FALSE)
    /\ UNCHANGED <<size, OnEvict, downloaders, naming, s3, bg, Waiting, WaitLock, waitChan, counts>>

\* --------------------------------------------------------- FetchNewerThan
\* lines 189-192: the first look into the cache, with the timestamp t
FetchNewerThan(p, k, t) ==
    /\ pc[p] = "idle"
    /\ ncalls' = ncalls + 1
    /\ pc' = [pc EXCEPT ![p] = IF Contains(k) THEN "FNT_stat" ELSE "FNT_fetch"]
    /\ op' = [op EXCEPT ![p] = "FetchNewerThan"]
    /\ key' = [key EXCEPT ![p] = k]
    /\ ts' = [ts EXCEPT ![p] = t]
    /\ evicted' = {}
    /\ UNCHANGED mtime
    /\ UNCHANGED <<size, OnEvict, downloaders, naming, s3, bg, Cache, files, Waiting, WaitLock, waitChan, mdErr,
                   stat, hist, last, counts, fetchedOk>>

\* FNTStat that takes a failed stat for a stale file
FNTStatErrReloads(p, ioOk) ==
    /\ pc[p] = "FNT_stat"
    /\ IF ioOk /\ StoragePath(key[p]) \in files
       THEN /\ stat' = [stat EXCEPT ![p] = mtime[key[p]]]
            /\ pc' = [pc EXCEPT ![p] = "FNT_check"]
       ELSE /\ stat' = [stat EXCEPT ![p] = StatErr]
            /\ pc' = [pc EXCEPT ![p] = "FNT_reload"]
    /\ evicted' = {}
    /\ UNCHANGED mtime
    /\ UNCHANGED <<size, OnEvict, downloaders, naming, s3, bg, Cache, files, Waiting, WaitLock, op, key, waitChan,
                   mdErr, ts, hist, last, counts, fetchedOk, ncalls>>

\* lines 194-198: times.Stat of the storage path, which fails when the file
\* is not there or cannot be read (ioOk = FALSE); then on to Fetch.
FNTStat(p, ioOk) ==
    /\ pc[p] = "FNT_stat"
    /\ IF ioOk /\ StoragePath(key[p]) \in files
       THEN /\ stat' = [stat EXCEPT ![p] = mtime[key[p]]]
            /\ pc' = [pc EXCEPT ![p] = "FNT_check"]
       ELSE /\ stat' = [stat EXCEPT ![p] = StatErr]
            /\ pc' = [pc EXCEPT ![p] = "FNT_fetch"]
    /\ evicted' = {}
    /\ UNCHANGED mtime
    /\ UNCHANGED <<size, OnEvict, downloaders, naming, s3, bg, Cache, files, Waiting, WaitLock, op, key, waitChan,
                   mdErr, ts, hist, last, counts, fetchedOk, ncalls>>

\* The Fetch of line 191 or 197: lines 212-217
FNTFetch(p) ==
    /\ pc[p] = "FNT_fetch"
    /\ IF Contains(key[p])
       THEN Return(p, op[p], key[p], "ok", "hit", TRUE)
       ELSE /\ pc' = [pc EXCEPT ![p] = "MD_lock"]
            /\ UNCHANGED <<op, key, mdErr, ts, stat, hist, last>>
    /\ evicted' = {}
    /\ UNCHANGED mtime
    /\ UNCHANGED <<size, OnEvict, downloaders, naming, s3, bg, Cache, files, Waiting, WaitLock, waitChan, counts,
                   fetchedOk, ncalls>>

\* FNTCheck that takes a file modified at the timestamp for new enough
FNTCheckAtOrAfter(p) ==
    /\ pc[p] = "FNT_check"
    /\ IF Contains(key[p]) /\ ts[p] <= stat[p]
       THEN Return(p, op[p], key[p], "ok", "fresh", TRUE)
       ELSE /\ pc' = [pc EXCEPT ![p] = "FNT_reload"]
            /\ UNCHANGED <<op, key, mdErr, ts, stat, hist, last>>
    /\ evicted' = {}
    /\ UNCHANGED mtime
    /\ UNCHANGED <<size, OnEvict, downloaders, naming, s3, bg, Cache, files, Waiting, WaitLock, waitChan, counts,
                   fetchedOk, ncalls>>

\* lines 202-206: c.Contains(dr) && timestamp.Before(stat.ModTime())
FNTCheck(p) ==
    /\ pc[p] = "FNT_check"
    /\ IF Contains(key[p]) /\ ts[p] < stat[p]
       THEN Return(p, op[p], key[p], "ok", "fresh", TRUE)
       ELSE /\ pc' = [pc EXCEPT ![p] = "FNT_reload"]
            /\ UNCHANGED <<op, key, mdErr, ts, stat, hist, last>>
    /\ evicted' = {}
    /\ UNCHANGED mtime
    /\ UNCHANGED <<size, OnEvict, downloaders, naming, s3, bg, Cache, files, Waiting, WaitLock, waitChan, counts,
                   fetchedOk, ncalls>>

\* The Reload of line 206: line 229, c.Cache.Remove
FNTReload(p) ==
    /\ pc[p] = "FNT_reload"
    /\ Cache' = LruRemove(Cache, key[p])
    /\ Evict(LruRemoveEvicted(Cache, key[p]))
    /\ fetchedOk' = Forget(LruRemoveEvicted(Cache, key[p]))
    /\ since' = [since EXCEPT ![p] = FALSE]
    /\ pc' = [pc EXCEPT ![p] = "MD_lock"]
    /\ UNCHANGED <<size, OnEvict, downloaders, naming, s3, bg, Waiting, WaitLock, locals, role, depReg, myDl,
                   dlRes, counts, ncalls, last>>

\* --------------------------------------------------------------- Contains
\* ContainsCall that waits for WaitLock to be free
ContainsCallLocked(p, k) ==
    /\ pc[p] = "idle"
    /\ WaitLock = NoProc
    /\ ncalls' = ncalls + 1
    /\ Return(p, "Contains", k, IF Contains(k) THEN "ok" ELSE "fail", "none", FALSE)
    /\ evicted' = {}
    /\ UNCHANGED mtime
    /\ UNCHANGED <<size, OnEvict, downloaders, naming, s3, bg, Cache, files, Waiting, WaitLock, waitChan, counts,
                   fetchedOk>>

\* lines 241-243, called by the user: c.Cache.Contains
ContainsCall(p, k) ==
    /\ pc[p] = "idle"
    /\ ncalls' = ncalls + 1
    /\ Return(p, "Contains", k, IF Contains(k) THEN "ok" ELSE "fail", "none", FALSE)
    /\ evicted' = {}
    /\ UNCHANGED mtime
    /\ UNCHANGED <<size, OnEvict, downloaders, naming, s3, bg, Cache, files, Waiting, WaitLock, waitChan, counts,
                   fetchedOk>>

\* -------------------------------------------------------------- PurgeAsync
\* The goroutine slots of PurgeAsync not used yet
FreeSlots == {i \in 1..NAsync : bg[i].pc = "none"}

\* lines 318-325: start a goroutine and return; withChan: doneChan is not nil
PurgeAsync(p, withChan) ==
    /\ pc[p] = "idle"
    /\ FreeSlots # {}
    /\ ncalls' = ncalls + 1
    /\ \E i \in FreeSlots :
          /\ \A j \in FreeSlots : i <= j
          /\ bg' = [bg EXCEPT ![i] = [pc |-> "purge",
                                      doneChan |-> IF withChan THEN "open" ELSE "nil"]]
    /\ Return(p, "PurgeAsync", 1, "ok", "none", FALSE)
    /\ evicted' = {}
    /\ UNCHANGED <<size, OnEvict, downloaders, naming, s3, Cache, files, mtime, Waiting, WaitLock, waitChan, counts,
                   fetchedOk>>

\* line 320, in the goroutine: c.Purge()
BgPurge(i) ==
    /\ bg[i].pc = "purge"
    /\ Cache' = <<>>
    /\ Evict(LruPurgeEvicted(Cache))
    /\ fetchedOk' = Forget(LruPurgeEvicted(Cache))
    /\ bg' = [bg EXCEPT ![i].pc = "close"]
    /\ UNCHANGED <<size, OnEvict, downloaders, naming, s3, Waiting, WaitLock, pc, locals, hist, counts, ncalls,
                   last>>

\* BgClose that closes doneChan before the purge
BgCloseEarly(i) ==
    /\ bg[i].pc \in {"purge", "close"}
    /\ bg[i].doneChan = "open" \/ bg[i].pc = "close"
    /\ bg' = [bg EXCEPT ![i].pc = IF bg[i].pc = "close" THEN "done" ELSE @,
                        ![i].doneChan = IF @ = "nil" THEN "nil" ELSE "closed"]
    /\ evicted' = {}
    /\ UNCHANGED <<size, OnEvict, downloaders, naming, s3, Cache, files, mtime, Waiting, WaitLock, pc, locals, hist,
                   counts, fetchedOk, ncalls, last>>

\* lines 321-323, in the goroutine: close(doneChan) unless it is nil
BgClose(i) ==
    /\ bg[i].pc = "close"
    /\ bg' = [bg EXCEPT ![i].pc = "done",
                        ![i].doneChan = IF @ = "nil" THEN "nil" ELSE "closed"]
    /\ evicted' = {}
    /\ UNCHANGED <<size, OnEvict, downloaders, naming, s3, Cache, files, mtime, Waiting, WaitLock, pc, locals, hist,
                   counts, fetchedOk, ncalls, last>>

\* ------------------------------------------------------------------- Next
\* The steps inside MaybeDownload of the goroutines P; the downloads end with
\* one of the outcomes O (TRUE: no error).
Steps(P, O) ==
    \/ \E p \in P : MDLock(p)
    \/ \E p \in P : MDCheck(p)
    \/ \E p \in P : MDAwait(p)
    \/ \E p \in P, ioOk \in O : MDDownload(p, ioOk)
    \/ \E p \in P, ok \in O : MDFetcherReturn(p, ok)
    \/ \E p \in P : MDAdd(p)
    \/ \E p \in P : MDDeferClose(p)
    \/ \E p \in P : MDDeferDelete(p)

\* The steps of the goroutines P inside FetchNewerThan before MaybeDownload
FNTSteps(P) ==
    \/ \E p \in P, ioOk \in BOOLEAN : FNTStat(p, ioOk)
    \/ \E p \in P : FNTFetch(p)
    \/ \E p \in P : FNTCheck(p)
    \/ \E p \in P : FNTReload(p)

\* Any goroutine calls any method with any key at any time.
Next ==
    \/ ncalls < MaxCalls /\ \E p \in 1..NProcs, k \in 1..NKeys : Fetch(p, k)
    \/ ncalls < MaxCalls /\ \E p \in 1..NProcs, k \in 1..NKeys : Reload(p, k)
    \/ ncalls < MaxCalls /\ \E p \in 1..NProcs, k \in 1..NKeys : MaybeDownload(p, k)
    \/ ncalls < MaxCalls /\ \E p \in 1..NProcs : Purge(p)
    \/ ncalls < MaxCalls /\ \E p \in 1..NProcs, k \in 1..NKeys : ContainsCall(p, k)
    \/ ncalls < MaxCalls /\ \E p \in 1..NProcs, k \in 1..NKeys, t \in Times :
                               FetchNewerThan(p, k, t)
    \/ FNTSteps(1..NProcs)
    \/ Steps(1..NProcs, BOOLEAN)

Spec == Init /\ [][Next]_vars

\* NCallers goroutines call Fetch and MaybeDownload with one and the same key,
\* which is not in the cache at first; no download fails.
OneKey == {1}

NextSingleFlight ==
    \/ ncalls < SameKeyCalls /\ \E p \in 1..NCallers, k \in OneKey : Fetch(p, k)
    \/ ncalls < SameKeyCalls /\ \E p \in 1..NCallers, k \in OneKey : MaybeDownload(p, k)
    \/ Steps(1..NCallers, {TRUE})

SpecSingleFlight == InitObserved /\ [][NextSingleFlight]_vars

\* The same, with downloads that may fail.
NextSameKey ==
    \/ ncalls < SameKeyCalls /\ \E p \in 1..NCallers, k \in OneKey : Fetch(p, k)
    \/ ncalls < SameKeyCalls /\ \E p \in 1..NCallers, k \in OneKey : MaybeDownload(p, k)
    \/ Steps(1..NCallers, BOOLEAN)

SpecSameKey == InitObserved /\ [][NextSameKey]_vars

\* One goroutine makes one call after the other, to a cache of any size up to
\* SeqSize.
InitSeq == (\E sz \in 1..SeqSize : New(sz)) /\ Defaults

NextSeq ==
    \/ ncalls < SeqCalls /\ \E k \in 1..SeqKeys : Fetch(1, k)
    \/ ncalls < SeqCalls /\ \E k \in 1..SeqKeys : Reload(1, k)
    \/ ncalls < SeqCalls /\ \E k \in 1..SeqKeys : MaybeDownload(1, k)
    \/ ncalls < SeqCalls /\ Purge(1)
    \/ ncalls < SeqCalls /\ \E k \in 1..SeqKeys : ContainsCall(1, k)
    \/ ncalls < SeqCalls /\ \E k \in 1..SeqKeys, t \in Times : FetchNewerThan(1, k, t)
    \/ \E ioOk \in BOOLEAN : FNTStat(1, ioOk)
    \/ FNTFetch(1)
    \/ FNTCheck(1)
    \/ FNTReload(1)
    \/ MDLock(1)
    \/ MDCheck(1)
    \/ \E ioOk \in BOOLEAN : MDDownload(1, ioOk)
    \/ \E ok \in BOOLEAN : MDFetcherReturn(1, ok)
    \/ MDAdd(1)
    \/ MDDeferClose(1)
    \/ MDDeferDelete(1)

SpecSeq == InitSeq /\ [][NextSeq]_vars

\* One goroutine calls Fetch, Purge and PurgeAsync, with and without a channel;
\* the goroutines PurgeAsync starts run beside it.  The Go scheduler runs
\* every goroutine that can take a step.
NextAsync ==
    \/ ncalls < AsyncCalls /\ \E k \in 1..NKeys : Fetch(1, k)
    \/ ncalls < AsyncCalls /\ Purge(1)
    \/ ncalls < AsyncCalls /\ \E withChan \in BOOLEAN : PurgeAsync(1, withChan)
    \/ MDLock(1)
    \/ MDCheck(1)
    \/ \E ioOk \in BOOLEAN : MDDownload(1, ioOk)
    \/ \E ok \in BOOLEAN : MDFetcherReturn(1, ok)
    \/ MDAdd(1)
    \/ MDDeferClose(1)
    \/ MDDeferDelete(1)
    \/ \E i \in 1..NAsync : BgPurge(i)
    \/ \E i \in 1..NAsync : BgClose(i)

SpecAsync ==
    /\ InitObserved
    /\ [][NextAsync]_vars
    /\ \A i \in 1..NAsync : WF_vars(BgPurge(i)) /\ WF_vars(BgClose(i))

\* ------------------------------------------------------------ naming
\* NewDownloadRecord(url, args) is called for the i-th record
NewDownloadRecordCall(i, url, args) ==
    /\ ~drs[i].made
    /\ \E dr \in NewDownloadRecord(url, args) :
          drs' = [drs EXCEPT ![i] = [made |-> TRUE, url |-> url, args |-> args, dr |-> dr]]
    /\ UNCHANGED <<caching, HashableArgs, DefaultExtension, names>>

\* dr.GetUniqueName() is called on the i-th record
GetUniqueNameCall(i) ==
    /\ drs[i].made
    /\ ~drs[i].dr.err
    /\ ~names[i].unique
    /\ names' = [names EXCEPT ![i].unique = TRUE, ![i].uniqueName = GetUniqueName(drs[i].dr)]
    /\ UNCHANGED <<caching, HashableArgs, DefaultExtension, drs>>

\* c.GetFileName(dr) is called on the i-th record
GetFileNameCall(i) ==
    /\ drs[i].made
    /\ ~drs[i].dr.err
    /\ ~names[i].file
    /\ names' = [names EXCEPT ![i].file = TRUE, ![i].fileName = GetFileName(drs[i].dr)]
    /\ UNCHANGED <<caching, HashableArgs, DefaultExtension, drs>>

\* The strings of at most n characters of the set cs
Strings(cs, n) == UNION {[1..k -> {Ch(c) : c \in cs}] : k \in 0..n}

\* The names of the arguments of a request, and those HashableArgs may hold
ArgNames == {"a", "A", "b"}

ListedNames == {"a", "b"}

\* The argument maps given to NewDownloadRecord
ArgMaps == UNION {[S -> Strings({"p", "q"}, MaxValLen)] : S \in SUBSET ArgNames}

\* The default extensions the option DefaultExtension sets
Extensions == {<<>>, Str(<<".", "a">>)}

\* A cache with one of the sets lists in HashableArgs and a default extension
\* of exts
Naming(lists, exts) ==
    /\ New(ConcSize)
    /\ OnEvict
    /\ downloaders = Managers
    /\ HashableArgs \in lists
    /\ DefaultExtension \in exts

\* Two records are made from one URL, each with any arguments, and their
\* names are asked for
RecordURL == <<DocRoot>> \o Str(<<"a", "/", "a", ".", "a">>)

InitRecords == Naming(SUBSET ListedNames, {<<>>})

NextRecords ==
    \/ \E args \in ArgMaps : NewDownloadRecordCall(1, RecordURL, args)
    \/ drs[1].made /\ \E args \in ArgMaps : NewDownloadRecordCall(2, drs[1].url, args)
    \/ \E i \in 1..2 : GetUniqueNameCall(i)
    \/ \E i \in 1..2 : GetFileNameCall(i)

SpecRecords == InitRecords /\ [][NextRecords]_vars

\* One record is made from any URL, with or without the prefix "/documents/",
\* and its names are asked for
URLs ==
    {pre \o u : pre \in {<<>>, <<DocRoot>>}, u \in Strings({"a", ".", "/"}, MaxUrlLen)}
        \cup {<<DocRoot>> \o Str(<<"d", "/", "a">>)}

InitFileName == Naming({{}, {"a"}}, Extensions)

FewArgMaps == {[n \in {} |-> <<>>], [n \in {"a"} |-> Str(<<"p">>)]}

NextFileName ==
    \/ \E url \in URLs, args \in FewArgMaps : NewDownloadRecordCall(1, url, args)
    \/ GetUniqueNameCall(1)
    \/ GetFileNameCall(1)

SpecFileName == InitFileName /\ [][NextFileName]_vars

\* Two records are made from URLs that differ in their last characters, with
\* no argument or with one argument whose value may be empty, and their names
\* are asked for
PairURLs == {RecordURL \o tl : tl \in Strings({"a", "_"}, MaxTailLen)}

PairArgMaps == FewArgMaps \cup {[n \in {"a"} |-> <<>>]}

InitPairs == Naming({{}, {"a"}}, {<<>>})

NextPairs ==
    \/ \E i \in 1..2, url \in PairURLs, args \in PairArgMaps : NewDownloadRecordCall(i, url, args)
    \/ \E i \in 1..2 : GetUniqueNameCall(i)
    \/ \E i \in 1..2 : GetFileNameCall(i)

SpecPairs == InitPairs /\ [][NextPairs]_vars

\* ------------------------------------------------------------------- S3
\* GetDownloader on a manager whose DownloaderCache is cache: the cache it
\* leaves and whether it asked for the region of the bucket.  The lookup of
\* line 59 or the session of line 68 may fail (regionOk = FALSE), and nothing
\* is cached then.
GetDownloader(cache, bucket, regionOk) ==
    IF bucket \in cache
    THEN [cache |-> cache, lookup |-> FALSE, err |-> FALSE]
    ELSE IF regionOk
    THEN [cache |-> cache \cup {bucket}, lookup |-> TRUE, err |-> FALSE]
    ELSE [cache |-> cache, lookup |-> TRUE, err |-> TRUE]

\* What a call of the cache's downloader adds to the counts of lookups
Counted(bucket, got) ==
    /\ regionLookups' = [regionLookups EXCEPT ![bucket] = IF got.lookup THEN @ + 1 ELSE @]
    /\ lookupErrs' = [lookupErrs EXCEPT ![bucket] = IF got.err THEN @ + 1 ELSE @]

\* m.GetDownloader(ctx, bucket) on a manager that is kept, as in s3_test.go
GetDownloaderCall(bucket, regionOk) ==
    /\ mgrLookups' = [mgrLookups EXCEPT ![bucket] =
                         IF GetDownloader(DownloaderCache, bucket, regionOk).lookup
                         THEN @ + 1 ELSE @]
    /\ DownloaderCache' = GetDownloader(DownloaderCache, bucket, regionOk).cache
    /\ UNCHANGED <<size, OnEvict, downloaders, naming, Cache, files, mtime, Waiting, WaitLock, pc,
                   locals, hist, counts, fetchedOk, evicted, ncalls, last, bg, s3Downloads,
                   regionLookups, lookupErrs>>

\* The downloader of the option S3Downloader, filecache.go lines 108-112, is
\* called for a record of the bucket: it makes a new manager, whose
\* DownloaderCache is empty, and calls Download on it, which calls
\* GetDownloader (s3.go line 98); the manager is dropped when it returns.
S3DownloaderCall(bucket, regionOk) ==
    /\ Counted(bucket, GetDownloader({}, bucket, regionOk))
    /\ s3Downloads' = [s3Downloads EXCEPT ![bucket] = @ + 1]
    /\ UNCHANGED <<size, OnEvict, downloaders, naming, Cache, files, mtime, Waiting, WaitLock, pc,
                   locals, hist, counts, fetchedOk, evicted, ncalls, last, bg, DownloaderCache,
                   mgrLookups>>

\* The S3 downloader of a cache and GetDownloader of a manager are called one
\* after the other
RECURSIVE CallsTo(_, _)
CallsTo(f, n) == IF n = 0 THEN 0 ELSE f[n] + CallsTo(f, n - 1)

Calls(f) == CallsTo(f, NBuckets)

NextS3 ==
    \/ Calls(mgrLookups) + Calls(s3Downloads) < S3Calls
         /\ \E b \in Buckets, regionOk \in BOOLEAN : GetDownloaderCall(b, regionOk)
    \/ Calls(mgrLookups) + Calls(s3Downloads) < S3Calls
         /\ \E b \in Buckets, regionOk \in BOOLEAN : S3DownloaderCall(b, regionOk)

SpecS3 == InitObserved /\ [][NextS3]_vars

\* ------------------------------------------------------------- fairness
\* A goroutine that is not waiting for anything goes on: sync.Mutex hands the
\* lock to every goroutine that asks for it (strong fairness of the steps that
\* lock WaitLock), and the scheduler runs every goroutine that can run.  The
\* steps inside DownloadFunc are left out: a download may take for ever.
FairOutsideDownload(P) ==
    \A p \in P :
       /\ SF_vars(MDLock(p))
       /\ WF_vars(MDCheck(p))
       /\ WF_vars(MDAwait(p))
       /\ WF_vars(MDAdd(p))
       /\ SF_vars(MDDeferClose(p))
       /\ WF_vars(MDDeferDelete(p))

\* Every call of DownloadFunc by a goroutine of P returns
FairDownload(P) ==
    \A p \in P :
       /\ WF_vars(\E ioOk \in BOOLEAN : MDDownload(p, ioOk))
       /\ WF_vars(\E ok \in BOOLEAN : MDFetcherReturn(p, ok))

\* NCallers goroutines make ReleaseCalls calls with one key; the goroutines
\* outside DownloadFunc go on
NextRelease ==
    \/ ncalls < ReleaseCalls /\ \E p \in 1..NCallers, k \in OneKey : Fetch(p, k)
    \/ ncalls < ReleaseCalls /\ \E p \in 1..NCallers, k \in OneKey : MaybeDownload(p, k)
    \/ Steps(1..NCallers, BOOLEAN)

SpecRelease == InitObserved /\ [][NextRelease]_vars /\ FairOutsideDownload(1..NCallers)

\* Goroutine 1 fetches key 1 with a downloader that never returns; goroutine 2
\* calls Fetch and Contains with key 2, and its downloads return.
NextStuck ==
    \/ ncalls < StuckCalls /\ Fetch(1, 1)
    \/ ncalls < StuckCalls /\ Fetch(2, 2)
    \/ ncalls < StuckCalls /\ ContainsCall(2, 2)
    \/ \E p \in 1..2 : MDLock(p)
    \/ \E p \in 1..2 : MDCheck(p)
    \/ \E p \in 1..2, ioOk \in BOOLEAN : MDDownload(p, ioOk)
    \/ \E ok \in BOOLEAN : MDFetcherReturn(2, ok)
    \/ MDAdd(2)
    \/ \E p \in 1..2 : MDDeferClose(p)
    \/ \E p \in 1..2 : MDDeferDelete(p)

SpecStuck ==
    /\ InitObserved
    /\ [][NextStuck]_vars
    /\ FairOutsideDownload(1..2)
    /\ FairDownload({2})

\* The goroutines P go on inside FetchNewerThan: none of its steps before
\* MaybeDownload waits for anything
FairFNT(P) ==
    \A p \in P :
       /\ WF_vars(\E ioOk \in BOOLEAN : FNTStat(p, ioOk))
       /\ WF_vars(FNTFetch(p))
       /\ WF_vars(FNTCheck(p))
       /\ WF_vars(FNTReload(p))

\* The goroutines that PurgeAsync started go on
FairAsync == \A i \in 1..NAsync : WF_vars(BgPurge(i)) /\ WF_vars(BgClose(i))

\* NProcs goroutines make LiveCalls calls of any exported method with any key;
\* every goroutine that can take a step takes it in the end, and every call of
\* DownloadFunc returns, with or without an error.
NextLive ==
    \/ ncalls < LiveCalls /\ \E p \in 1..NProcs, k \in 1..NKeys : Fetch(p, k)
    \/ ncalls < LiveCalls /\ \E p \in 1..NProcs, k \in 1..NKeys : Reload(p, k)
    \/ ncalls < LiveCalls /\ \E p \in 1..NProcs, k \in 1..NKeys, t \in Times :
                               FetchNewerThan(p, k, t)
    \/ ncalls < LiveCalls /\ \E p \in 1..NProcs, k \in 1..NKeys : ContainsCall(p, k)
    \/ ncalls < LiveCalls /\ \E p \in 1..NProcs : Purge(p)
    \/ ncalls < LiveCalls /\ \E p \in 1..NProcs, withChan \in BOOLEAN : PurgeAsync(p, withChan)
    \/ FNTSteps(1..NProcs)
    \/ Steps(1..NProcs, BOOLEAN)
    \/ \E i \in 1..NAsync : BgPurge(i)
    \/ \E i \in 1..NAsync : BgClose(i)

SpecLive ==
    /\ InitObserved
    /\ [][NextLive]_vars
    /\ FairOutsideDownload(1..NProcs)
    /\ FairDownload(1..NProcs)
    /\ FairFNT(1..NProcs)
    /\ FairAsync

\* ----------------------------------------------------------- properties
\* The labels of a goroutine that made the channel of its key and has not
\* returned yet
OwnerLabels == {"MD_download", "MD_fetching", "MD_add", "MD_defer", "MD_delete"}

Owners(k) == {p \in Procs : pc[p] \in OwnerLabels /\ key[p] = k}

AllIdle == \A p \in Procs : pc[p] = "idle"

\* C1: when several goroutines call Fetch and MaybeDownload with the same key,
\* absent from the cache at first, and no download fails, the Fetcher is
\* invoked once only, every call returns success, and none returns before
\* that one invocation.
C1_SingleFlight ==
    /\ \A k \in Keys : fetchCount[k] <= 1
    /\ last.proc # NoProc => last.ret = "ok" /\ fetchCount[last.key] = 1

C1_Witness ==
    /\ AllIdle
    /\ ncalls = SameKeyCalls
    /\ fetchCount[last.key] = 1
    /\ last.role = "waiter"
    /\ last.ret = "ok"

\* C2 as stated: the calls with one key perform one fetch, whether or not it
\* fails.
C2_Original == \A k \in Keys : fetchCount[k] <= 1

\* C2, amended: at most one goroutine at a time owns a download of the key, and
\* every invocation of the Fetcher but the first follows a download that
\* failed.
C2_OneFetchUnlessFailed ==
    \A k \in Keys :
       /\ Cardinality(Owners(k)) <= 1
       /\ fetchCount[k] <= failCount[k] + 1

C2_Witness ==
    /\ AllIdle
    /\ fetchCount[last.key] = 2
    /\ failCount[last.key] = 1
    /\ last.ret = "ok"
    /\ last.role = "owner"

\* C3 as stated: a call of MaybeDownload, Fetch or Reload that returns success
\* depended on a fetch that registered the key in the cache (or found the key
\* in the cache).
C3_Claim ==
    (last.op \in {"MaybeDownload", "Fetch", "Reload"} /\ last.ret = "ok")
        => last.depReg

\* The labels of a goroutine inside MaybeDownload
MDLabels == {"MD_lock", "MD_check", "MD_await"} \cup OwnerLabels

\* C4 as stated: when a call of MaybeDownload resolves, c.Waiting holds no
\* entry for its key.
C4_Original ==
    [][\A p \in Procs :
          (pc[p] \in MDLabels /\ pc'[p] = "idle") => Waiting'[key[p]] = NoChan]_vars

\* C4, amended: c.Waiting holds an entry for a key only while the goroutine
\* that made it is still inside MaybeDownload for that key, and a goroutine
\* blocks only on a channel that is closed already or whose owner is still
\* inside MaybeDownload: no call waits on a download that has resolved.
C4_NoStuckWaiters ==
    /\ \A k \in Keys : Waiting[k] # NoChan => Waiting[k] \in Owners(k)
    /\ \A p \in Procs :
          pc[p] = "MD_await" =>
             \/ waitChan[p] = ClosedChan
             \/ waitChan[p] = Waiting[key[p]] /\ waitChan[p] \in Owners(key[p])

\* a download failed and its call returned; a later call is fetching the key
\* afresh
C4_Witness ==
    /\ last.role = "owner"
    /\ last.ret = "fail"
    /\ Waiting[last.key] # NoChan
    /\ \E p \in Procs : pc[p] = "MD_fetching" /\ key[p] = last.key /\ myDl[p] = 1

\* C5: a key has at most one goroutine that owns its download (hence one
\* channel), and when the owner returns from MaybeDownload, with or without an
\* error, c.Waiting has no entry for the key.
C5_OneHandlePerKey ==
    /\ [](\A k \in Keys : Cardinality(Owners(k)) <= 1)
    /\ [][\A p \in Procs :
            (pc[p] \in OwnerLabels /\ pc'[p] = "idle")
               => Waiting'[key[p]] = NoChan]_vars

\* an owner has returned an error while another call of the key had joined it
C5_Witness ==
    /\ last.role = "owner"
    /\ last.ret = "fail"
    /\ Waiting[last.key] = NoChan
    /\ \E p \in Procs : pc[p] = "MD_await" /\ key[p] = last.key

\* The step of line 287 by a goroutine whose key is new to a full cache
AddToFull(p) ==
    /\ pc[p] = "MD_add"
    /\ pc'[p] = "MD_defer"
    /\ key[p] \notin CacheKeys
    /\ Len(Cache) = size

\* C6 as stated: the cache never holds more than size entries, and adding a
\* new key to a full cache evicts one entry, leaves size entries, and the
\* evicted entry's file is not on disk afterwards.
C6_Original ==
    /\ [](Len(Cache) <= size)
    /\ [][\A p \in Procs :
            AddToFull(p) =>
               /\ Len(Cache') = size
               /\ Cardinality(evicted') = 1
               /\ \A e \in evicted' :
                     /\ e.key \in CacheKeys
                     /\ e.key \notin CacheKeys'
                     /\ e.value \notin files']_vars

\* C6, amended: ... and the evicted entry's file is not on disk afterwards
\* unless os.Remove failed on it.
C6_LruBound ==
    /\ [](Len(Cache) <= size)
    /\ [][\A p \in Procs :
            AddToFull(p) =>
               /\ Len(Cache') = size
               /\ Cardinality(evicted') = 1
               /\ \A e \in evicted' :
                     /\ e.key \in CacheKeys
                     /\ e.key \notin CacheKeys'
                     /\ e.value = StoragePath(e.key)
                     /\ (e.value \in files') => (~e.ok /\ e.value \in files)]_vars

\* an entry was just evicted by an insertion and its file removed
C6_Witness ==
    /\ Len(Cache) = size
    /\ \E p \in Procs : pc[p] = "MD_defer" /\ depReg[p] /\ key[p] \in CacheKeys
    /\ \E e \in evicted : e.ok /\ e.value \notin files /\ e.key \notin CacheKeys

\* The step of a call of Fetch that finds its key in the cache
FetchHit == ncalls' = ncalls + 1 /\ pc' = pc /\ last'.op = "Fetch"

\* C7 as stated: a Fetch that finds its key in the cache makes it the most
\* recently used entry.
C7_Claim == [][FetchHit => Cache'[1].key = last'.key]_vars

\* C8: every key in the cache had a download that succeeded since the key was
\* last removed from the cache.
C8_OnlyAfterSuccess == \A k \in CacheKeys : fetchedOk[k]

\* a key is in the cache and a download of it had failed before
C8_Witness == \E k \in CacheKeys : failCount[k] > 0

\* C9: one call after the other, a Fetch that does not find its key in the
\* cache invokes DownloadFunc once, and if the download succeeds the call
\* returns true and the key is in the cache when it returns.
C9_FetchMiss ==
    (pc[1] = "idle" /\ last.op = "Fetch" /\ last.role # "hit") =>
        /\ last.role = "owner"
        /\ last.myDl = 1
        /\ last.dlRes = "fetched" => last.ret = "ok" /\ Contains(last.key)

C9_Witness ==
    /\ pc[1] = "idle"
    /\ last.op = "Fetch"
    /\ last.role = "owner"
    /\ last.dlRes = "fetched"
    /\ last.ret = "ok"
    /\ fetchCount[last.key] = 1
    /\ Contains(last.key)

\* Goroutine p enters Fetch with key k in this step
EntersFetch(p, k) ==
    /\ pc[p] = "idle"
    /\ ncalls' = ncalls + 1
    /\ \/ op'[p] = "Fetch" /\ key'[p] = k
       \/ pc' = pc /\ last'.proc = p /\ last'.op = "Fetch" /\ last'.key = k

\* C10: a Fetch of a key that is in the cache returns true at once, invokes
\* neither DownloadFunc nor the Fetcher, and changes neither the cache nor
\* c.Waiting.
C10_FetchHitFrame ==
    [][\A p \in Procs, k \in Keys :
          (EntersFetch(p, k) /\ k \in CacheKeys) =>
             /\ pc'[p] = "idle"
             /\ last'.ret = "ok"
             /\ last'.myDl = 0
             /\ UNCHANGED <<Cache, Waiting, files, fetchCount>>]_vars

C10_Witness ==
    /\ last.op = "Fetch"
    /\ last.role = "hit"
    /\ last.ret = "ok"
    /\ last.key \in CacheKeys

\* The ways a download fails
Failed == {"ioFail", "fetchFail"}

\* C11: when the downloader, or the creation of the directory or the file,
\* fails, the call that owns the download returns the error (Fetch, Reload and
\* FetchNewerThan return false), it has invoked DownloadFunc once only, and
\* its key is not in the cache when it returns.
C11_ErrorReturned ==
    [][\A p \in Procs :
          (pc[p] # "idle" /\ pc'[p] = "idle" /\ dlRes[p] \in Failed) =>
             /\ last'.proc = p
             /\ last'.op = op[p]
             /\ last'.ret = "fail"
             /\ last'.myDl = 1
             /\ key[p] \notin CacheKeys']_vars

\* a Reload of a key that was in the cache has returned false after its
\* downloader failed
C11_Witness ==
    /\ last.op = "Reload"
    /\ last.ret = "fail"
    /\ last.dlRes = "fetchFail"
    /\ last.myDl = 1
    /\ fetchCount[last.key] = 2
    /\ last.key \notin CacheKeys

\* C12 as stated: when Reload returns true, DownloadFunc has been invoked for
\* its key after Reload removed the key from the cache.
C12_Claim == (last.op = "Reload" /\ last.ret = "ok") => last.since

\* The call that returned last was a FetchNewerThan that found its key in the
\* cache and a file modified before the timestamp
StaleReturned ==
    /\ last.op = "FetchNewerThan"
    /\ last.stat > NoTime
    /\ last.stat < last.ts

\* C13 as stated: a FetchNewerThan that finds its key in the cache and the
\* file modified before the timestamp reloads: DownloadFunc is invoked after
\* the key was removed, and the call returns true iff the download it
\* depended on registered the key.
C13_Claim ==
    StaleReturned => /\ last.since
                     /\ last.ret = "ok" <=> last.depReg

\* The step of line 202 by a goroutine whose key is in the cache and whose
\* stat returned a modification time
AtCheck(p) ==
    /\ pc[p] = "FNT_check"
    /\ pc'[p] # "FNT_check"
    /\ Contains(key[p])
    /\ stat[p] > NoTime

\* What a FetchNewerThan that finds the file new enough does: return true, no
\* DownloadFunc invoked, nothing removed from the cache
ReturnsFresh(p) ==
    /\ pc'[p] = "idle"
    /\ last'.proc = p
    /\ last'.ret = "ok"
    /\ last'.myDl = 0
    /\ UNCHANGED <<Cache, files, Waiting, counts>>

\* C14 as stated: a FetchNewerThan whose key is in the cache and whose file is
\* modified at or after the timestamp returns true, invokes no DownloadFunc
\* and removes nothing from the cache.
C14_Original ==
    [][\A p \in Procs :
          (AtCheck(p) /\ ts[p] <= stat[p]) => ReturnsFresh(p)]_vars

\* C14, amended: it does so when the file is modified after the timestamp; when
\* the file is modified at the timestamp the call goes on to Reload, as for
\* an older file.
C14_FreshIsStrictlyNewer ==
    [][\A p \in Procs :
          /\ (AtCheck(p) /\ ts[p] < stat[p]) => ReturnsFresh(p)
          /\ (AtCheck(p) /\ ts[p] = stat[p]) =>
                 pc'[p] = "FNT_reload" /\ UNCHANGED <<Cache, files, Waiting, counts>>]_vars

\* a FetchNewerThan has returned true for a file newer than its timestamp
\* without a download
C14_Witness ==
    /\ last.op = "FetchNewerThan"
    /\ last.role = "fresh"
    /\ last.ret = "ok"
    /\ last.stat > last.ts
    /\ last.myDl = 0
    /\ last.key \in CacheKeys

\* What Fetch does with the key of goroutine p: return true when the key is in
\* the cache, go on to MaybeDownload when it is not, and change nothing
LikeFetch(p) ==
    /\ IF Contains(key[p])
       THEN pc'[p] = "idle" /\ last'.proc = p /\ last'.ret = "ok" /\ last'.myDl = 0
       ELSE pc'[p] = "MD_lock" /\ mdErr'[p] = FALSE /\ myDl'[p] = 0
    /\ UNCHANGED <<Cache, files, Waiting, counts>>

\* C15: a FetchNewerThan whose key is not in the cache, or whose key is in the
\* cache but whose file cannot be stat'ed (it is not there, or it cannot be
\* read), goes on as Fetch does; a file that is not on disk is never stat'ed
\* with success.
C15_StatFailLikeFetch ==
    [][\A p \in Procs :
          /\ (pc[p] = "idle" /\ op'[p] = "FetchNewerThan" /\ key'[p] \notin CacheKeys)
                 => pc'[p] = "FNT_fetch" /\ UNCHANGED <<Cache, files, Waiting, counts>>
          /\ (pc[p] = "FNT_stat" /\ pc'[p] # "FNT_stat" /\ StoragePath(key[p]) \notin files)
                 => stat'[p] = StatErr
          /\ (pc[p] = "FNT_stat" /\ pc'[p] # "FNT_stat" /\ stat'[p] = StatErr)
                 => pc'[p] = "FNT_fetch" /\ UNCHANGED <<Cache, files, Waiting, counts>>
          /\ (pc[p] = "FNT_fetch" /\ pc'[p] # "FNT_fetch") => LikeFetch(p)]_vars

\* a FetchNewerThan whose stat failed has returned true for a key in the cache
C15_Witness ==
    /\ last.op = "FetchNewerThan"
    /\ last.stat = StatErr
    /\ last.role = "hit"
    /\ last.ret = "ok"
    /\ last.myDl = 0
    /\ last.key \in CacheKeys

\* The eviction callback has just run for entry e of the cache: c.OnEvict was
\* called if there is one, and the file was removed or, if os.Remove failed, left
\* as it was
Callback(e) ==
    /\ e.value = StoragePath(e.key)
    /\ e.observed = OnEvict
    /\ e.ok => e.value \in files /\ e.value \notin files'
    /\ ~e.ok => (e.value \in files <=> e.value \in files')

\* The step of a call of Purge
PurgeStep == ncalls' = ncalls + 1 /\ pc' = pc /\ last'.op = "Purge"

\* C16: when Purge returns the cache is empty, and the eviction callback has
\* run for every entry that was in the cache.
C16_PurgeEvictsAll ==
    [][PurgeStep =>
          /\ Cache' = <<>>
          /\ {e.key : e \in evicted'} = CacheKeys
          /\ Cardinality(evicted') = Len(Cache)
          /\ \A e \in evicted' : Callback(e)]_vars

\* Purge has just returned from a cache of two entries; one file was removed,
\* the removal of the other failed
C16_Witness ==
    /\ last.op = "Purge"
    /\ Cache = <<>>
    /\ Cardinality(evicted) = 2
    /\ \E e \in evicted : e.ok /\ e.value \notin files
    /\ \E e \in evicted : ~e.ok /\ e.value \in files

\* The step of a call of PurgeAsync
PurgeAsyncStep == ncalls' = ncalls + 1 /\ pc' = pc /\ last'.op = "PurgeAsync"

\* C17: PurgeAsync returns before the purge has run; doneChan is closed once
\* only, by the goroutine, after its purge has emptied the cache, and it is
\* closed eventually; with a nil doneChan the purge runs all the same and
\* nothing is closed.
C17_PurgeAsync ==
    /\ [][PurgeAsyncStep =>
             /\ UNCHANGED <<Cache, files>>
             /\ \E i \in 1..NAsync : bg[i].pc = "none" /\ bg'[i].pc = "purge"]_vars
    /\ [][\A i \in 1..NAsync :
             (bg[i].pc = "purge" /\ bg'[i].pc # "purge") =>
                /\ Cache' = <<>>
                /\ {e.key : e \in evicted'} = CacheKeys]_vars
    /\ [][\A i \in 1..NAsync :
             (bg[i].pc # "none" /\ bg'[i].doneChan # bg[i].doneChan) =>
                /\ bg[i].pc = "close"
                /\ bg[i].doneChan = "open"
                /\ bg'[i].doneChan = "closed"]_vars
    /\ [](\A i \in 1..NAsync : bg[i].doneChan = "closed" => bg[i].pc = "done")
    /\ \A i \in 1..NAsync : (bg[i].doneChan = "open") ~> (bg[i].doneChan = "closed")
    /\ \A i \in 1..NAsync : (bg[i].pc = "purge") ~> (bg[i].pc = "done")

\* two goroutines of PurgeAsync have ended, one closed its doneChan, the other
\* had none, and the file of a key that was fetched is gone
C17_Witness ==
    /\ \E i \in 1..NAsync : bg[i] = [pc |-> "done", doneChan |-> "closed"]
    /\ \E i \in 1..NAsync : bg[i] = [pc |-> "done", doneChan |-> "nil"]
    /\ \E k \in Keys : fetchCount[k] > 0
    /\ Cache = <<>>
    /\ files = {}

\* C18: whenever entries leave the cache, by an insertion over the size, by
\* the removal of Reload or by a purge, the eviction callback runs once for
\* each of them, with its key and path: c.OnEvict is called if there is one,
\* and os.Remove is tried on the path, whether or not it works.
C18_EvictionCallback ==
    [][/\ {e.key : e \in evicted'} = CacheKeys \ CacheKeys'
       /\ Cardinality(evicted') = Cardinality(CacheKeys \ CacheKeys')
       /\ \A e \in evicted' :
             /\ \E i \in 1..Len(Cache) : Cache[i] = Entry(e.key, e.value)
             /\ Callback(e)]_vars

\* the removal of Reload has just called c.OnEvict, and os.Remove failed
C18_Witness ==
    \E p \in Procs, e \in evicted :
       /\ pc[p] = "MD_lock"
       /\ op[p] = "Reload"
       /\ key[p] = e.key
       /\ e.observed
       /\ ~e.ok
       /\ e.value \in files

\* C19: a step whose eviction callback fails to remove a file does what it does
\* when the removal works: the insertion of line 287 adds the key and sets no
\* error, the removal of Reload removes the key and goes on to MaybeDownload,
\* a purge empties the cache; and a call whose download worked returns
\* success.
C19_DeleteFailureIgnored ==
    /\ [][(\E e \in evicted' : ~e.ok) =>
             /\ \A e \in evicted' : e.key \notin CacheKeys'
             /\ \/ \E p \in Procs :
                      /\ pc[p] = "MD_add"
                      /\ pc'[p] = "MD_defer"
                      /\ ~mdErr'[p]
                      /\ Cache' = LruAdd(Cache, key[p], StoragePath(key[p]))
                \/ \E p \in Procs :
                      /\ pc[p] \in {"idle", "FNT_reload"}
                      /\ pc'[p] = "MD_lock"
                      /\ ~mdErr'[p]
                      /\ Cache' = LruRemove(Cache, key'[p])
                \/ PurgeStep /\ last'.ret = "ok" /\ Cache' = <<>>]_vars
    /\ []((last.role = "owner" /\ last.dlRes = "fetched") => last.ret = "ok")

\* an insertion has just evicted an entry whose file could not be removed, and
\* goes on without an error
C19_Witness ==
    \E p \in Procs, e \in evicted :
       /\ pc[p] = "MD_defer"
       /\ ~mdErr[p]
       /\ key[p] \in CacheKeys
       /\ e.key \notin CacheKeys
       /\ ~e.ok
       /\ e.value \in files

\* The step of a call of Contains
ContainsStep == ncalls' = ncalls + 1 /\ pc' = pc /\ last'.op = "Contains"

\* C20: Contains returns true iff the key is in the cache, changes neither the
\* cache nor c.Waiting nor the disk, and can return whoever holds WaitLock and
\* whatever download is in progress.
C20_ContainsFrame ==
    /\ [][ContainsStep =>
             /\ last'.ret = "ok" <=> last'.key \in CacheKeys
             /\ UNCHANGED <<Cache, files, mtime, Waiting, WaitLock, counts>>]_vars
    /\ [](\A p \in Procs, k \in Keys : pc[p] = "idle" => ENABLED ContainsCall(p, k))

\* Contains has returned true while another goroutine holds WaitLock inside
\* MaybeDownload, its channel still in c.Waiting
C20_Witness ==
    /\ last.op = "Contains"
    /\ last.ret = "ok"
    /\ last.key \in CacheKeys
    /\ WaitLock # NoProc
    /\ Waiting[key[WaitLock]] # NoChan


\* ------------------------------------------------------------ naming claims
\* Both records were made, both unique names or both file names asked for
BothMade == drs[1].made /\ drs[2].made /\ ~drs[1].dr.err /\ ~drs[2].dr.err

BothUnique == BothMade /\ names[1].unique /\ names[2].unique

BothFile == BothMade /\ names[1].file /\ names[2].file

\* C21 as stated: two records made by NewDownloadRecord from the same path
\* whose allow-listed arguments differ have different unique names and
\* different file names.
C21_Claim ==
    (BothMade /\ drs[1].dr.Path = drs[2].dr.Path /\ drs[1].dr.Args # drs[2].dr.Args) =>
        /\ BothUnique => names[1].uniqueName # names[2].uniqueName
        /\ BothFile => names[1].fileName # names[2].fileName

\* The arguments of a request whose lower-cased names are in HashableArgs
Listed(args) == [n \in {m \in DOMAIN args : ToLower(m) \in HashableArgs} |-> args[n]]

\* C22: a name outside HashableArgs is never stored in a record's Args nor
\* hashed: the record made is one NewDownloadRecord may return without the
\* arguments of such names; two records of one path whose arguments all have
\* such names (or that have none) have empty Args, an empty HashedArgs, the
\* path as their unique name, and the same file name.
C22_NonListedIgnored ==
    /\ \A i \in 1..2 : drs[i].made =>
          /\ DOMAIN drs[i].dr.Args \subseteq HashableArgs
          /\ drs[i].dr \in NewDownloadRecord(drs[i].url, Listed(drs[i].args))
          /\ DOMAIN Listed(drs[i].args) = {} =>
                /\ DOMAIN drs[i].dr.Args = {}
                /\ drs[i].dr.HashedArgs = <<>>
                /\ names[i].unique => names[i].uniqueName = drs[i].dr.Path
    /\ (BothMade /\ DOMAIN Listed(drs[1].args) = {} /\ DOMAIN Listed(drs[2].args) = {}) =>
          /\ BothUnique => names[1].uniqueName = names[2].uniqueName
          /\ BothFile => names[1].fileName = names[2].fileName

C22_Witness ==
    /\ BothUnique
    /\ BothFile
    /\ HashableArgs # {}
    /\ DOMAIN drs[1].args # {}
    /\ DOMAIN Listed(drs[1].args) = {}
    /\ DOMAIN drs[2].args = {}
    /\ names[1].fileName = names[2].fileName

\* C23 as stated: two calls of NewDownloadRecord with the same URL, equal
\* argument maps and the same HashableArgs give the same HashedArgs and the
\* same unique name.
C23_Claim ==
    (BothMade /\ drs[1].url = drs[2].url /\ drs[1].args = drs[2].args) =>
        /\ drs[1].dr.HashedArgs = drs[2].dr.HashedArgs
        /\ BothUnique => names[1].uniqueName = names[2].uniqueName


\* The last element of the path GetFileName returned for the i-th record
Leaf(i) == names[i].fileName.path[Len(names[i].fileName.path)]

\* C24 as stated: the unique name is the path alone exactly when HashedArgs is
\* empty, and the path, "_" and HashedArgs otherwise; the file name has "_"
\* and HashedArgs between the hash of the path and the extension exactly when
\* HashedArgs is not empty.
C24_Original ==
    \A i \in 1..2 :
        /\ names[i].unique =>
              names[i].uniqueName =
                  IF drs[i].dr.HashedArgs = <<>>
                  THEN drs[i].dr.Path
                  ELSE drs[i].dr.Path \o Str(<<"_">>) \o drs[i].dr.HashedArgs
        /\ names[i].file =>
              Leaf(i) =
                  IF drs[i].dr.HashedArgs = <<>>
                  THEN Md5Hex(drs[i].dr.Path) \o Extension(drs[i].dr)
                  ELSE Md5Hex(drs[i].dr.Path) \o Str(<<"_">>) \o drs[i].dr.HashedArgs
                          \o Extension(drs[i].dr)

\* C24: the unique name is the path alone exactly when the record's Args is
\* empty, and the path, "_" and HashedArgs (which may be empty) otherwise; the
\* file name has "_" and HashedArgs between the hash of the path and the
\* extension exactly when Args is not empty.
C24_ShapeFollowsArgs ==
    \A i \in 1..2 :
        /\ names[i].unique =>
              names[i].uniqueName =
                  IF DOMAIN drs[i].dr.Args = {}
                  THEN drs[i].dr.Path
                  ELSE drs[i].dr.Path \o Str(<<"_">>) \o drs[i].dr.HashedArgs
        /\ names[i].file =>
              Leaf(i) =
                  IF DOMAIN drs[i].dr.Args = {}
                  THEN Md5Hex(drs[i].dr.Path) \o Extension(drs[i].dr)
                  ELSE Md5Hex(drs[i].dr.Path) \o Str(<<"_">>) \o drs[i].dr.HashedArgs
                          \o Extension(drs[i].dr)

C24_Witness ==
    /\ names[1].unique
    /\ names[1].file
    /\ DOMAIN drs[1].dr.Args # {}
    /\ drs[1].dr.HashedArgs = <<>>
    /\ names[2].unique
    /\ names[2].file
    /\ drs[2].dr.HashedArgs # <<>>


\* -------------------------------------------------------- file name claims
\* The path of the record has a '.' among its last 5 characters
DotNearEnd(dr) == \E j \in Indices(dr.Path, ".") : j > Len(dr.Path) - 5

\* s ends in e
EndsIn(s, e) == Len(e) <= Len(s) /\ SubSeq(s, Len(s) - Len(e) + 1, Len(s)) = e

\* The file name of the first record, as built at lines 355-363, is known:
\* GetFileName returned
FileNamed == names[1].file /\ ~names[1].fileName.panic

\* C25 as stated: for every record GetFileName returns a file name; it ends
\* in the path's suffix from its last '.' when that '.' is among the last 5
\* characters of the path, and in the default extension otherwise.
C25_Claim ==
    names[1].file =>
        /\ ~names[1].fileName.panic
        /\ EndsIn(FileNameOf(drs[1].dr),
                  IF DotNearEnd(drs[1].dr)
                  THEN SubSeq(drs[1].dr.Path, Greatest(Indices(drs[1].dr.Path, ".")),
                              Len(drs[1].dr.Path))
                  ELSE DefaultExtension)

\* C26 as stated: what GetFileName returns is BaseDir, a directory of two hex
\* digits and one more element, whatever the path of the record.
C26_Claim ==
    FileNamed =>
        /\ Len(names[1].fileName.path) = 3
        /\ names[1].fileName.path[1] = BaseDir
        /\ Len(names[1].fileName.path[2]) = 2

\* The parts of the URL of the first record, without the prefix, that are not
\* empty
Meaningful(url) == {j \in DOMAIN Split(TrimPrefix(url)) : Split(TrimPrefix(url))[j] # <<>>}

\* C27 as stated: NewDownloadRecord fails whenever fewer than two parts that
\* are not empty are left of the URL without its prefix, and otherwise
\* returns a record whose Path neither starts nor ends with '/'.
C27_Claim ==
    drs[1].made =>
        /\ Cardinality(Meaningful(drs[1].url)) < 2 => drs[1].dr.err
        /\ Cardinality(Meaningful(drs[1].url)) >= 2 =>
              /\ ~drs[1].dr.err
              /\ drs[1].dr.Path[1] # Ch("/")
              /\ drs[1].dr.Path[Len(drs[1].dr.Path)] # Ch("/")


C29_Original ==
    [][\A q \in Procs :
          (waitChan[q] \notin {NoChan, ClosedChan} /\ waitChan'[q] = ClosedChan) =>
              Waiting'[key[q]] = NoChan]_vars

\* C29: the owner closes the channel first and deletes the entry of c.Waiting
\* second, holding WaitLock from before the first to after the second: between
\* the two the entry is still there, no goroutine is blocked on the channel
\* any more, and no goroutine but the owner is past the lock.  While a key has
\* an entry, the goroutine that made it is the only one downloading the key.
C29_CloseThenDelete ==
    /\ \A p \in Procs : pc[p] = "MD_delete" =>
          /\ WaitLock = p
          /\ Waiting[key[p]] = p
          /\ \A q \in Procs : waitChan[q] # p /\ pc[q] # "MD_check"
    /\ \A q \in Procs : waitChan[q] \notin {NoChan, ClosedChan} =>
          /\ Waiting[key[q]] = waitChan[q]
          /\ pc[waitChan[q]] \in OwnerLabels \ {"MD_delete"}
    /\ \A k \in Keys : Waiting[k] # NoChan => Owners(k) = {Waiting[k]}

\* the owner is between close and delete, and a goroutine it released has not
\* returned yet
C29_Witness ==
    \E p, q \in Procs :
       /\ pc[p] = "MD_delete"
       /\ pc[q] = "MD_await"
       /\ key[q] = key[p]
       /\ waitChan[q] = ClosedChan
       /\ Waiting[key[p]] = p


\* --------------------------------------------- calls return after the fetch
\* The DownloadFunc invocation of goroutine p has returned
Resolved(p) == dlRes[p] # "none"

\* C30: a call that found its key missing returns from MaybeDownload only
\* after a DownloadFunc invocation for the key has returned: its own (it owns
\* the download), that of the owner of the channel it waited on, which is
\* closed after the owner's invocation returned, or one that put the key into
\* the cache before the second look of line 260.
C30_ReturnsAfterFetch ==
    [][\A p \in Procs :
          /\ (pc[p] \in MDLabels /\ pc'[p] = "idle") =>
                \/ pc[p] = "MD_delete" /\ Resolved(p)
                \/ pc[p] = "MD_await" /\ waitChan[p] = ClosedChan
                \/ pc[p] = "MD_check" /\ Contains(key[p]) /\ fetchedOk[key[p]]
          /\ (waitChan[p] \notin {NoChan, ClosedChan} /\ waitChan'[p] = ClosedChan) =>
                /\ pc[waitChan[p]] = "MD_defer"
                /\ key[waitChan[p]] = key[p]
                /\ Resolved(waitChan[p])
          /\ pc'[p] \in {"MD_download", "MD_fetching"} => ~Resolved(p)']_vars

\* three calls for one key have returned, two of them after waiting for the
\* download of the third
C30_Witness ==
    /\ AllIdle
    /\ ncalls = NCallers
    /\ last.role = "waiter"
    /\ fetchCount[last.key] = 1
    /\ failCount[last.key] = 0
    /\ last.key \in CacheKeys


\* ------------------------------------------------------- waiters released
\* Goroutine q is blocked on the channel of a goroutine whose call of
\* DownloadFunc has returned
BlockedOnResolved(q) ==
    /\ pc[q] = "MD_await"
    /\ waitChan[q] \notin {NoChan, ClosedChan}
    /\ Resolved(waitChan[q])

\* C31: a goroutine blocked on the channel of a download is released, and
\* returns, once the owner's call of DownloadFunc has returned, with or
\* without an error.
C31_WaitersReleased ==
    \A q \in Procs : BlockedOnResolved(q) ~> (pc[q] = "idle" /\ last.role = "waiter")

\* a goroutine has waited for a download that failed, and has returned
C31_Witness ==
    /\ last.role = "waiter"
    /\ last.op = "MaybeDownload"
    /\ ~last.depReg
    /\ failCount[last.key] = 1
    /\ AllIdle


\* ------------------------------------------------ downloads of other keys
\* C32: no goroutine holds WaitLock while it is inside DownloadFunc, and while
\* the downloader of key 1 does not return every Fetch of key 2 returns, and
\* Contains of key 2 can be called and returns at once.
C32_OtherKeysGoOn ==
    /\ [](\A p \in Procs : pc[p] \in {"MD_download", "MD_fetching"} => WaitLock # p)
    /\ (pc[1] = "MD_fetching" /\ pc[2] # "idle") ~> (pc[1] = "MD_fetching" /\ pc[2] = "idle")
    /\ []((pc[1] = "MD_fetching" /\ pc[2] = "idle") => ENABLED ContainsCall(2, 2))

\* key 2 was downloaded and registered while the downloader of key 1 was, and
\* still is, running
C32_Witness ==
    /\ pc[1] = "MD_fetching"
    /\ pc[2] = "idle"
    /\ last.proc = 2
    /\ last.op = "Fetch"
    /\ last.role = "owner"
    /\ last.ret = "ok"
    /\ since[1]
    /\ 2 \in CacheKeys


\* ------------------------------------------------- S3 downloaders cached
\* C33 as stated: the downloader of S3Downloader looks the region of a bucket
\* up until a lookup works and not again in the downloads after that.
C33_Claim == \A b \in Buckets : regionLookups[b] <= lookupErrs[b] + 1


\* ------------------------------------------- registered before the close
\* C34: a goroutine whose download returned without error has added the key to
\* the cache before it closes the channel and deletes the entry of c.Waiting;
\* so a key that was downloaded, and not removed from the cache since, is in
\* the cache whenever c.Waiting has no entry for it, and a goroutine that then
\* looks for the entry under WaitLock does not go on to download.
C34_RegisteredBeforeClose ==
    /\ \A p \in Procs : (pc[p] \in {"MD_defer", "MD_delete"} /\ ~mdErr[p]) => depReg[p]
    /\ \A k \in Keys : (fetchedOk[k] /\ Waiting[k] = NoChan) => Contains(k)
    /\ \A p \in Procs :
          (pc[p] = "MD_check" /\ Waiting[key[p]] = NoChan /\ fetchedOk[key[p]]) =>
              ~ENABLED (MDCheck(p) /\ pc'[p] # "idle")

\* a Fetch missed the cache at line 213, the key was registered and its entry
\* of c.Waiting deleted before the Fetch got WaitLock
C34_Witness ==
    \E p \in Procs :
       /\ pc[p] = "MD_check"
       /\ op[p] = "Fetch"
       /\ Waiting[key[p]] = NoChan
       /\ fetchedOk[key[p]]
       /\ Contains(key[p])
       /\ fetchCount[key[p]] = 1


\* ------------------------------------------- no download of a cached key
\* The labels from the making of the channel to c.Cache.Add
DownloadLabels == {"MD_download", "MD_fetching", "MD_add"}

\* C35: from the step in which a goroutine makes the channel of its key to the
\* step in which it adds the key, the key is not in the cache: DownloadFunc,
\* which creates or truncates the file of the key, never runs for a key that
\* is in the cache.
C35_NoDownloadOfCachedKey ==
    \A p \in Procs : pc[p] \in DownloadLabels => ~Contains(key[p])

\* the downloader runs a second time for a key, which Reload has removed from
\* the cache
C35_Witness ==
    \E p \in Procs :
       /\ pc[p] = "MD_fetching"
       /\ op[p] = "Reload"
       /\ fetchCount[key[p]] = 2
       /\ StoragePath(key[p]) \in files


\* ------------------------------------------------ files of cached entries
\* C36: the file of every entry of the cache is on disk, and the entries whose
\* file the last step deleted, or tried to delete, have left the cache in
\* that step.
C36_CachedFilesExist ==
    /\ \A i \in 1..Len(Cache) : Cache[i].value \in files
    /\ \A e \in evicted : e.key \notin CacheKeys

\* a key is in the cache again, with its file on disk, after Reload removed
\* its entry, deleted its file and downloaded it a second time
C36_Witness ==
    /\ last.op = "Reload"
    /\ last.role = "owner"
    /\ last.ret = "ok"
    /\ last.key \in CacheKeys
    /\ fetchCount[last.key] = 2
    /\ StoragePath(last.key) \in files


\* ------------------------------------------------- Reload whose fetch fails
\* C38: when a Reload has returned false because its download failed, and no
\* other call is under way, its key is not in the cache and has no channel in
\* Waiting.
C38_FailedReloadDropsEntry ==
    (pc[1] = "idle" /\ last.op = "Reload" /\ last.ret = "fail")
        => /\ last.key \notin CacheKeys
           /\ Waiting[last.key] = NoChan

\* the key was downloaded and cached by the call before; Reload removed the
\* entry and its download failed
C38_Witness ==
    /\ pc[1] = "idle"
    /\ last.op = "Reload"
    /\ last.ret = "fail"
    /\ last.role = "owner"
    /\ fetchCount[last.key] = 2
    /\ failCount[last.key] = 1
    /\ ncalls = 2
    /\ last.key \notin CacheKeys


\* ------------------------------------------- files left by failed downloads
\* C40: when the first call made to a new cache has returned, every file on
\* disk is the file of a key in the cache: no download is under way and no
\* deletion has been tried, so a file of any other key is one that a failed
\* download has left behind.
C40_Claim ==
    (ncalls = 1 /\ \A p \in Procs : pc[p] = "idle")
        => \A k \in Keys : StoragePath(k) \in files => k \in CacheKeys


\* --------------------------------------------- unique name and file name
\* C39 as stated: two records with the same unique name have the same file
\* name.
C39_Claim ==
    (BothUnique /\ BothFile /\ names[1].uniqueName = names[2].uniqueName)
        => names[1].fileName = names[2].fileName


\* ------------------------------------------------------- every call returns
\* C37: when every call of DownloadFunc returns, every call of Fetch, Reload,
\* FetchNewerThan, Contains, Purge and PurgeAsync returns in the end, and so
\* does the goroutine that PurgeAsync started.
C37_EveryCallReturns ==
    /\ \A p \in 1..NProcs : (pc[p] # "idle") ~> (pc[p] = "idle")
    /\ \A i \in 1..NAsync : (bg[i].pc = "purge") ~> (bg[i].pc = "done")

\* a goroutine that waited for the download of another has returned, and no
\* goroutine is left in a call
C37_Witness ==
    /\ \A p \in Procs : pc[p] = "idle"
    /\ last.role = "waiter"
    /\ WaitLock = NoProc
    /\ \A k \in Keys : Waiting[k] = NoChan

====
